---- MODULE Spec2Model ----
(***************************************************************************)
(* A model of nfo's log-flow core (src/nfo/log_flow.py): LogFlowParser's   *)
(* normalize_entry, parse_jsonl, group_by_trace_id, build_flow_graph and   *)
(* compress_for_llm.                                                       *)
(*                                                                         *)
(* Python values are tagged records (None, str, int, list, dict); a str is *)
(* a sequence of one-character strings, so that concatenation, strip(),    *)
(* replace() and code-point comparison are computed, not assumed.  A call  *)
(* either returns a value or raises: Ok(v) / Raise(e).                     *)
(*                                                                         *)
(* The module also models two sinks: AsyncBufferedSink                     *)
(* (src/nfo/buffered_sink.py), with its caller threads and its background  *)
(* flush thread interleaved step by step, and RingBufferSink               *)
(* (src/nfo/ring_buffer_sink.py).                                          *)
(***************************************************************************)
EXTENDS Integers, Sequences, FiniteSets, TLC

VARIABLES
    missing_trace_id,   \* LogFlowParser.missing_trace_id
    input,              \* the argument the caller is assembling / passes
    call,               \* the last completed call: operation, arguments, outcome
    sink,               \* an AsyncBufferedSink: its fields
    threads,            \* the threads that use the sink: where each is, its locals
    delegate,           \* the calls the downstream sink has received, in order
    history,            \* what the callers of a sink have done so far
    ring                \* a RingBufferSink: its fields

flowVars == <<missing_trace_id, input, call>>
sinkVars == <<sink, threads, delegate, history, ring>>
vars == <<missing_trace_id, input, call, sink, threads, delegate, history, ring>>

(***************************************************************************)
(* Python values                                                           *)
(***************************************************************************)
None == [t |-> "None"]
StrV(s) == [t |-> "str", s |-> s]
IntV(n) == [t |-> "int", n |-> n]
\* an int whose magnitude is beyond the range of a float (e.g. 10**400)
BigIntV == [t |-> "bigint"]
\* a float, held in thousandths
FloatV(n) == [t |-> "float", n |-> n]
ListV(items) == [t |-> "list", items |-> items]
DictV(d) == [t |-> "dict", d |-> d]

EmptyDict == [k \in {} |-> None]
\* a pathlib.Path
PathV(s) == [t |-> "path", s |-> s]

NewLine == "\n"

Ok(v) == [exc |-> "", value |-> v]
Raise(e) == [exc |-> e]
IsRaise(r) == r.exc # ""

\* a step that runs on the value of a call that returned, and is skipped by one
\* that raised
Then(r, F(_)) == IF IsRaise(r) THEN r ELSE F(r.value)

\* the characters the model's strings use, in code-point order
Ascii ==
    <<" ", "#", "+", "-", ".", "0", "1", "2", "3", "4", "5", "6", "7",
      "8", "9", ":", "?", "A", "B", "C", "D", "E", "F", "G", "H", "I",
      "J", "K", "L", "M", "N", "O", "P", "Q", "R", "S", "T", "U", "V",
      "W", "X", "Y", "Z", "[", "]", "a", "b", "c", "d", "e", "f", "g",
      "h", "i", "j", "k", "l", "m", "n", "o", "p", "q", "r", "s", "t",
      "u", "v", "w", "x", "y", "z">>

Ord(c) == CHOOSE i \in 1..Len(Ascii) : Ascii[i] = c

\* str < str : lexicographic by code point
StrLess(a, b) ==
    \E i \in 1..(Len(b)) :
        /\ i <= Len(a) + 1
        /\ \A j \in 1..(i - 1) : a[j] = b[j]
        /\ \/ i = Len(a) + 1
           \/ Ord(a[i]) < Ord(b[i])

\* bool(value)
Truthy(v) ==
    CASE v.t = "None" -> FALSE
      [] v.t = "str" -> v.s # <<>>
      [] v.t = "int" -> v.n # 0
      [] v.t = "bigint" -> TRUE
      [] v.t = "float" -> v.n # 0
      [] v.t = "list" -> v.items # <<>>
      [] v.t = "dict" -> DOMAIN v.d # {}

\* a or b
Or(a, b) == IF Truthy(a) THEN a ELSE b

RECURSIVE Digits(_)
Digits(n) ==
    IF n < 10 THEN <<Ascii[Ord("0") + n]>>
    ELSE Digits(n \div 10) \o <<Ascii[Ord("0") + (n % 10)]>>

\* str(value), for the values the model uses (a list is [] or [1])
Str(v) ==
    CASE v.t = "str" -> v.s
      [] v.t = "int" -> IF v.n < 0 THEN <<"-">> \o Digits(-v.n) ELSE Digits(v.n)
      [] v.t = "None" -> <<"N", "o", "n", "e">>
      [] v.t = "list" -> IF v.items = <<>> THEN <<"[", "]">> ELSE <<"[", "1", "]">>
      [] OTHER -> <<"?">>

\* mapping.get(key, default)
Get(d, key, default) == IF key \in DOMAIN d THEN d[key] ELSE default

RECURSIVE LStrip(_)
LStrip(s) == IF s # <<>> /\ Head(s) = " " THEN LStrip(Tail(s)) ELSE s

RECURSIVE RStrip(_)
RStrip(s) ==
    IF s # <<>> /\ s[Len(s)] = " " THEN RStrip(SubSeq(s, 1, Len(s) - 1)) ELSE s

\* str.strip()
Strip(s) == RStrip(LStrip(s))

\* str.upper(), on the letters the model's level names use
UpperChar(c) ==
    CASE c = "e" -> "E" [] c = "r" -> "R" [] c = "o" -> "O"
      [] c = "i" -> "I" [] c = "n" -> "N" [] c = "f" -> "F"
      [] OTHER -> c

Upper(s) == [i \in 1..Len(s) |-> UpperChar(s[i])]

\* timestamp.replace("Z", "+00:00")
RECURSIVE ReplaceZ(_)
ReplaceZ(s) ==
    IF s = <<>> THEN <<>>
    ELSE IF Head(s) = "Z" THEN <<"+", "0", "0", ":", "0", "0">> \o ReplaceZ(Tail(s))
    ELSE <<Head(s)>> \o ReplaceZ(Tail(s))

(***************************************************************************)
(* The strings of the model                                                *)
(***************************************************************************)
NoTrace == <<"n", "o", "-", "t", "r", "a", "c", "e">>
Unknown == <<"u", "n", "k", "n", "o", "w", "n">>
\* a parser constructed with missing_trace_id="" and one with " n "
NoSentinel == <<>>
Padded == <<" ", "n", " ">>

Ts15 == <<"2", "0", "2", "6", "-", "0", "2", "-", "1", "5">>
Ts15T10 == Ts15 \o <<"T", "1", "0">>
Ts15T10Z == Ts15T10 \o <<"Z">>
Ts15T10Utc == Ts15T10 \o <<"+", "0", "0", ":", "0", "0">>
Ts16 == <<"2", "0", "2", "6", "-", "0", "2", "-", "1", "6">>
TsBad == <<"x">>

\* datetime.fromisoformat(text).timestamp(), on the timestamps of the model
\* (process time zone UTC); -1 stands for fromisoformat's ValueError
IsoTimestamp(text) ==
    CASE text = Ts15 -> 1771113600
      [] text = Ts15T10 -> 1771149600
      [] text = Ts15T10Utc -> 1771149600
      [] text = Ts16 -> 1771200000
      [] OTHER -> -1

(***************************************************************************)
(* _safe_float, _timestamp_sort_key                                        *)
(***************************************************************************)
IsDigit(c) == Ord(c) >= Ord("0") /\ Ord(c) <= Ord("9")

RECURSIVE DigitsValue(_)
DigitsValue(s) ==
    IF s = <<>> THEN 0
    ELSE 10 * DigitsValue(SubSeq(s, 1, Len(s) - 1)) + (Ord(s[Len(s)]) - Ord("0"))

\* float(value): a number, or the exception float() raises.  A duration is held
\* in thousandths (fixed point, the three decimals round(x, 3) keeps).
Float(v) ==
    CASE v.t = "int" -> Ok(1000 * v.n)
      [] v.t = "bigint" -> Raise("OverflowError")
      [] v.t = "float" -> Ok(v.n)
      [] v.t = "str" ->
            IF v.s # <<>> /\ \A i \in 1..Len(v.s) : IsDigit(v.s[i])
            THEN Ok(1000 * DigitsValue(v.s))
            ELSE Raise("ValueError")
      [] OTHER -> Raise("TypeError")

_safe_float(value) ==
    IF value = None THEN Ok(0)
    ELSE LET r == Float(value)
         IN IF r.exc \in {"TypeError", "ValueError"} THEN Ok(0) ELSE r

_timestamp_sort_key(timestamp) ==
    IF timestamp = <<>> THEN 0
    ELSE LET r == IsoTimestamp(ReplaceZ(timestamp))
         IN IF r = -1 THEN 0 ELSE r

(***************************************************************************)
(* LogFlowParser.normalize_entry                                           *)
(***************************************************************************)
NodeId(module, function_name) ==
    IF module # <<>> THEN module \o <<".">> \o function_name ELSE function_name

\* a TraceIdOf that takes the value found as it is, blanks included
TraceIdOf_NoStrip(raw, extra, missing) ==
    Str(Or(Get(raw, "trace_id", None),
        Or(Get(raw, "tid", None),
        Or(Get(extra, "trace_id", None),
        Or(Get(extra, "tid", None), StrV(missing))))))

TraceIdOf(raw, extra, missing) ==
    LET trace_id == Or(Get(raw, "trace_id", None),
                    Or(Get(raw, "tid", None),
                    Or(Get(extra, "trace_id", None),
                    Or(Get(extra, "tid", None), StrV(missing)))))
        stripped == Strip(Str(trace_id))
    IN IF stripped # <<>> THEN stripped ELSE missing

DurationOf(raw) == _safe_float(Get(raw, "duration_ms", Get(raw, "ms", IntV(0))))

\* the body of normalize_entry, from raw = dict(entry) on
NormalizeMapping(self, raw) ==
    LET extra_raw == Get(raw, "extra", DictV(EmptyDict))
        extra == IF extra_raw.t = "dict" THEN extra_raw.d ELSE EmptyDict
        function_name ==
            Str(Or(Get(raw, "function_name", None), Or(Get(raw, "fn", None), StrV(<<"?">>))))
        module == Str(Or(Get(raw, "module", None), Or(Get(raw, "mod", None), StrV(<<>>))))
        timestamp == Str(Or(Get(raw, "timestamp", None), Or(Get(raw, "ts", None), StrV(<<>>))))
        level ==
            Upper(Str(Or(Get(raw, "level", None),
                      Or(Get(raw, "lvl", None), StrV(<<"I", "N", "F", "O">>)))))
        exception == Str(Or(Get(raw, "exception", None), Or(Get(raw, "err", None), StrV(<<>>))))
        exception_type ==
            Str(Or(Get(raw, "exception_type", None), Or(Get(raw, "et", None), StrV(<<>>))))
        duration_ms == DurationOf(raw)
    IN IF IsRaise(duration_ms) THEN duration_ms
       ELSE Ok([timestamp |-> timestamp,
                sort_key |-> _timestamp_sort_key(timestamp),
                trace_id |-> TraceIdOf(raw, extra, self),
                function_name |-> function_name,
                module |-> module,
                node |-> NodeId(module, function_name),
                level |-> level,
                duration_ms |-> duration_ms.value,
                exception |-> exception,
                exception_type |-> exception_type,
                extra |-> extra])

\* a normalize_entry that takes any value for a record, an unsupported one as empty
normalize_entry_Lenient(self, entry) ==
    NormalizeMapping(self, IF entry.t = "dict" THEN entry.d ELSE EmptyDict)

normalize_entry(self, entry) ==
    IF entry.t # "dict" THEN Raise("TypeError") ELSE NormalizeMapping(self, entry.d)

(***************************************************************************)
(* Sorting: list.sort(key=...) and sorted(..., key=...) are stable         *)
(***************************************************************************)
\* the position of seq[i] after a stable sort by Less
SortRank(seq, i, Less(_, _)) ==
    1 + Cardinality({j \in 1..Len(seq) :
                        \/ Less(seq[j], seq[i])
                        \/ (~Less(seq[i], seq[j]) /\ j < i)})

StableSort(seq, Less(_, _)) ==
    [p \in 1..Len(seq) |-> seq[CHOOSE i \in 1..Len(seq) : SortRank(seq, i, Less) = p]]

\* key=lambda e: (e["sort_key"], e["function_name"], e["module"])
EventKeyLess(a, b) ==
    \/ a.sort_key < b.sort_key
    \/ /\ a.sort_key = b.sort_key
       /\ \/ StrLess(a.function_name, b.function_name)
          \/ /\ a.function_name = b.function_name
             /\ StrLess(a.module, b.module)

\* key=lambda item: (-len(item[1]), item[0])
GroupKeyLess(a, b) ==
    \/ Len(a.events) > Len(b.events)
    \/ (Len(a.events) = Len(b.events) /\ StrLess(a.trace_id, b.trace_id))

\* the members of a set of indices, ascending
Ascending(S) ==
    [p \in 1..Cardinality(S) |-> CHOOSE i \in S : Cardinality({j \in S : j < i}) = p - 1]

(***************************************************************************)
(* LogFlowParser.group_by_trace_id                                         *)
(* A dict is a sequence of items in insertion order.                       *)
(***************************************************************************)
RECURSIVE Flatten(_)
Flatten(seqs) == IF seqs = <<>> THEN <<>> ELSE Head(seqs) \o Flatten(Tail(seqs))

\* [self.normalize_entry(e) for e in entries]: the events, or the first exception
FirstRaiseOrValues(results) ==
    LET bad == {i \in 1..Len(results) : IsRaise(results[i])}
    IN IF bad # {}
       THEN results[CHOOSE i \in bad : \A j \in bad : i <= j]
       ELSE Ok([i \in 1..Len(results) |-> results[i].value])

NormalizeAll(self, entries) ==
    FirstRaiseOrValues([i \in 1..Len(entries) |-> normalize_entry(self, entries[i])])

\* grouped[event["trace_id"]].append(event), for each event in turn
Buckets(events) ==
    LET firsts == {i \in 1..Len(events) :
                      \A j \in 1..(i - 1) : events[j].trace_id # events[i].trace_id}
        order == Ascending(firsts)
    IN [p \in 1..Len(order) |->
          [trace_id |-> events[order[p]].trace_id,
           events |-> SelectSeq(events,
                                LAMBDA e : e.trace_id = events[order[p]].trace_id)]]

\* a SortBucket that leaves the bucket in arrival order
SortBucket_Unsorted(events) == events

SortBucket(events) == StableSort(events, EventKeyLess)

\* for trace_id in grouped: grouped[trace_id].sort(key=...)
SortBuckets(grouped) ==
    [p \in 1..Len(grouped) |->
        [trace_id |-> grouped[p].trace_id, events |-> SortBucket(grouped[p].events)]]

\* a SortGroups that leaves the buckets in the order their trace ids arrived
SortGroups_Unsorted(grouped) == grouped

\* dict(sorted(grouped.items(), key=...))
SortGroups(grouped) == StableSort(grouped, GroupKeyLess)

GroupEvents(events) == Ok(SortGroups(SortBuckets(Buckets(events))))

group_by_trace_id(self, entries) == Then(NormalizeAll(self, entries), GroupEvents)

\* a normalized event, as the mapping it is when passed as an entry
EventAsEntry(event) ==
    DictV([k \in DOMAIN event |->
             CASE k \in {"sort_key", "duration_ms"} -> FloatV(event[k])
               [] k = "extra" -> DictV(event[k])
               [] OTHER -> StrV(event[k])])

\* the buckets of a grouping, concatenated in the order of its trace ids
Concatenated(grouped) ==
    LET events == Flatten([p \in 1..Len(grouped) |-> grouped[p].events])
    IN [i \in 1..Len(events) |-> EventAsEntry(events[i])]

(***************************************************************************)
(* LogFlowParser.build_flow_graph                                          *)
(* The argument is a sequence of entries, ListV(entries), or a mapping,    *)
(* MappingV(items) with items a sequence of [key, value] in the mapping's  *)
(* iteration order, each value a sequence of entries.                      *)
(***************************************************************************)
MappingV(items) == [t |-> "mapping", items |-> items]

\* an AssignBuckets that walks each bucket in the order the caller supplied it
AssignBuckets_AsSupplied(keys, buckets) ==
    LET firsts == {i \in 1..Len(keys) : \A j \in 1..(i - 1) : keys[j] # keys[i]}
        order == Ascending(firsts)
        last(k) == CHOOSE i \in 1..Len(keys) :
                      keys[i] = k /\ \A j \in 1..Len(keys) : keys[j] = k => j <= i
    IN [p \in 1..Len(order) |->
          [trace_id |-> keys[order[p]], events |-> buckets[last(keys[order[p]])]]]

\* grouped[str(trace_id)] = sorted([normalize_entry(e) for e in trace_entries]):
\* a key seen again keeps its place and takes the later bucket
AssignBuckets(keys, buckets) ==
    LET firsts == {i \in 1..Len(keys) : \A j \in 1..(i - 1) : keys[j] # keys[i]}
        order == Ascending(firsts)
        last(k) == CHOOSE i \in 1..Len(keys) :
                      keys[i] = k /\ \A j \in 1..Len(keys) : keys[j] = k => j <= i
    IN [p \in 1..Len(order) |->
          [trace_id |-> keys[order[p]],
           events |-> SortBucket(buckets[last(keys[order[p]])])]]

\* the mapping group_by_trace_id returned, as the argument it is when passed on
GroupedAsMapping(grouped) ==
    MappingV([p \in 1..Len(grouped) |->
                [key |-> StrV(grouped[p].trace_id),
                 value |-> [i \in 1..Len(grouped[p].events) |->
                              EventAsEntry(grouped[p].events[i])]]])

GroupedFromMapping(self, items) ==
    LET keys == [i \in 1..Len(items) |-> Str(items[i].key)]
        Assign(buckets) == Ok(AssignBuckets(keys, buckets))
    IN Then(FirstRaiseOrValues([i \in 1..Len(items) |-> NormalizeAll(self, items[i].value)]),
            Assign)

GroupedOf(self, entries_or_grouped) ==
    IF entries_or_grouped.t = "mapping"
    THEN GroupedFromMapping(self, entries_or_grouped.items)
    ELSE group_by_trace_id(self, entries_or_grouped.items)

\* bool(event["exception"])
HasError(event) == event.exception # <<>>

\* a TraceVisits whose cursor starts on the trace's first node, not on None
TraceVisits_CursorOnFirst(trace) ==
    [i \in 1..Len(trace.events) |->
        [trace_id |-> trace.trace_id,
         event |-> trace.events[i],
         prev_node |-> StrV(trace.events[IF i = 1 THEN 1 ELSE i - 1].node)]]

\* the inner loop's iterations of one trace: the event and the prev_node it meets
TraceVisits(trace) ==
    [i \in 1..Len(trace.events) |->
        [trace_id |-> trace.trace_id,
         event |-> trace.events[i],
         prev_node |-> IF i = 1 THEN None ELSE StrV(trace.events[i - 1].node)]]

Visits(grouped) == Flatten([p \in 1..Len(grouped) |-> TraceVisits(grouped[p])])

\* an UpdateNode that never finds the node: every event opens a node of its own
UpdateNode_NoSetdefault(nodes, visit) ==
    Append(nodes,
           [id |-> visit.event.node, module |-> visit.event.module,
            function_name |-> visit.event.function_name,
            calls |-> 1, errors |-> IF HasError(visit.event) THEN 1 ELSE 0,
            total_duration_ms |-> visit.event.duration_ms,
            trace_ids |-> {visit.trace_id}])

\* nodes.setdefault(node_id, {...}) and the updates of the node
UpdateNode(nodes, visit) ==
    LET event == visit.event
        fresh == [id |-> event.node, module |-> event.module,
                  function_name |-> event.function_name,
                  calls |-> 0, errors |-> 0, total_duration_ms |-> 0, trace_ids |-> {}]
        present == \E i \in 1..Len(nodes) : nodes[i].id = event.node
        all == IF present THEN nodes ELSE Append(nodes, fresh)
    IN [i \in 1..Len(all) |->
          IF all[i].id # event.node THEN all[i]
          ELSE [all[i] EXCEPT
                  !.calls = @ + 1,
                  !.errors = IF HasError(event) THEN @ + 1 ELSE @,
                  !.total_duration_ms = @ + event.duration_ms,
                  !.trace_ids = @ \cup {visit.trace_id}]]

\* an EdgeErrorIncrement that counts every pair as an error
EdgeErrorIncrement_Always(visit) == 1

\* edge["error_count"] += 1 if has_error
EdgeErrorIncrement(visit) == IF HasError(visit.event) THEN 1 ELSE 0

\* edges.setdefault((prev_node, node_id), {...}) and the updates of the edge
UpdateEdge(edges, visit) ==
    IF visit.prev_node = None THEN edges
    ELSE
    LET source == visit.prev_node.s
        target == visit.event.node
        fresh == [source |-> source, target |-> target,
                  count |-> 0, error_count |-> 0, trace_ids |-> {}]
        present == \E i \in 1..Len(edges) : edges[i].source = source /\ edges[i].target = target
        all == IF present THEN edges ELSE Append(edges, fresh)
    IN [i \in 1..Len(all) |->
          IF all[i].source # source \/ all[i].target # target THEN all[i]
          ELSE [all[i] EXCEPT
                  !.count = @ + 1,
                  !.error_count = @ + EdgeErrorIncrement(visit),
                  !.trace_ids = @ \cup {visit.trace_id}]]

\* a WalkStep that counts an event's error on its node only, not in the total
WalkStep_ErrorsUncounted(acc, visit) ==
    [nodes |-> UpdateNode(acc.nodes, visit),
     edges |-> UpdateEdge(acc.edges, visit),
     total_events |-> acc.total_events + 1,
     total_errors |-> acc.total_errors]

WalkStep(acc, visit) ==
    [nodes |-> UpdateNode(acc.nodes, visit),
     edges |-> UpdateEdge(acc.edges, visit),
     total_events |-> acc.total_events + 1,
     total_errors |-> acc.total_errors + (IF HasError(visit.event) THEN 1 ELSE 0)]

RECURSIVE Walk(_, _)
Walk(visits, acc) ==
    IF visits = <<>> THEN acc ELSE Walk(Tail(visits), WalkStep(acc, Head(visits)))

\* a summary whose end_timestamp is taken from the first event
TraceSummary_EndFromFirst(trace) ==
    LET events == trace.events
    IN [trace_id |-> trace.trace_id,
        event_count |-> Len(events),
        error_count |-> Cardinality({i \in 1..Len(events) : HasError(events[i])}),
        start_timestamp |-> IF events # <<>> THEN events[1].timestamp ELSE <<>>,
        end_timestamp |-> IF events # <<>> THEN events[1].timestamp ELSE <<>>,
        events |-> events]

\* traces.append({...}) at the end of one trace
TraceSummary(trace) ==
    LET events == trace.events
    IN [trace_id |-> trace.trace_id,
        event_count |-> Len(events),
        error_count |-> Cardinality({i \in 1..Len(events) : HasError(events[i])}),
        start_timestamp |-> IF events # <<>> THEN events[1].timestamp ELSE <<>>,
        end_timestamp |-> IF events # <<>> THEN events[Len(events)].timestamp ELSE <<>>,
        events |-> events]

\* sorted(a set of str)
SortedStrs(S) ==
    [p \in 1..Cardinality(S) |->
        CHOOSE x \in S : Cardinality({y \in S : StrLess(y, x)}) = p - 1]

\* round(total / calls, 3), half to even, in thousandths
RoundDiv(total, calls) ==
    LET q == total \div calls
        r == total % calls
    IN IF 2 * r > calls \/ (2 * r = calls /\ q % 2 = 1) THEN q + 1 ELSE q

NodeRow(node) ==
    [id |-> node.id, module |-> node.module, function_name |-> node.function_name,
     calls |-> node.calls, errors |-> node.errors,
     total_duration_ms |-> node.total_duration_ms,
     avg_duration_ms |-> RoundDiv(node.total_duration_ms,
                                  IF node.calls # 0 THEN node.calls ELSE 1),
     trace_ids |-> SortedStrs(node.trace_ids)]

EdgeRow(edge) ==
    [source |-> edge.source, target |-> edge.target, count |-> edge.count,
     error_count |-> edge.error_count, trace_ids |-> SortedStrs(edge.trace_ids)]

\* key=lambda n: (-n["calls"], -n["errors"], n["id"])
NodeKeyLess(a, b) ==
    \/ a.calls > b.calls
    \/ /\ a.calls = b.calls
       /\ \/ a.errors > b.errors
          \/ (a.errors = b.errors /\ StrLess(a.id, b.id))

\* key=lambda e: (-e["count"], -e["error_count"], e["source"], e["target"])
EdgeKeyLess(a, b) ==
    \/ a.count > b.count
    \/ /\ a.count = b.count
       /\ \/ a.error_count > b.error_count
          \/ /\ a.error_count = b.error_count
             /\ \/ StrLess(a.source, b.source)
                \/ (a.source = b.source /\ StrLess(a.target, b.target))

\* a TraceKeyLess that ranks the traces by trace_id alone
TraceKeyLess_ByTraceId(a, b) == StrLess(a.trace_id, b.trace_id)

\* key=lambda t: (-t["event_count"], t["trace_id"])
TraceKeyLess(a, b) ==
    \/ a.event_count > b.event_count
    \/ (a.event_count = b.event_count /\ StrLess(a.trace_id, b.trace_id))

GraphFrom(grouped, acc) ==
    LET node_rows == StableSort([i \in 1..Len(acc.nodes) |-> NodeRow(acc.nodes[i])],
                                NodeKeyLess)
        edge_rows == StableSort([i \in 1..Len(acc.edges) |-> EdgeRow(acc.edges[i])],
                                EdgeKeyLess)
        traces == StableSort([p \in 1..Len(grouped) |-> TraceSummary(grouped[p])],
                             TraceKeyLess)
    IN [stats |-> [trace_count |-> Len(grouped),
                   event_count |-> acc.total_events,
                   node_count |-> Len(node_rows),
                   edge_count |-> Len(edge_rows),
                   error_count |-> acc.total_errors],
        nodes |-> node_rows,
        edges |-> edge_rows,
        traces |-> traces]

GraphOf(grouped) ==
    GraphFrom(grouped,
              Walk(Visits(grouped),
                   [nodes |-> <<>>, edges |-> <<>>, total_events |-> 0, total_errors |-> 0]))

GraphResult(grouped) == Ok(GraphOf(grouped))

build_flow_graph(self, entries_or_grouped) ==
    Then(GroupedOf(self, entries_or_grouped), GraphResult)

(***************************************************************************)
(* LogFlowParser.parse_jsonl, on an iterable of lines                      *)
(***************************************************************************)
\* the lines of the model
LineBlank == <<>>
LineSpaces == <<" ", " ">>
LineNotJson == <<"x">>
LineNumber == <<"5">>
LineArray == <<"[", "]">>
\* {"fn":"f","tid":"a"}
LineObjectF ==
    <<"{", "\"", "f", "n", "\"", ":", "\"", "f", "\"", ",",
      "\"", "t", "i", "d", "\"", ":", "\"", "a", "\"", "}">>
\* {"fn":"g","err":"boom"}, with blanks around it
LineObjectG ==
    <<" ", "{", "\"", "f", "n", "\"", ":", "\"", "g", "\"", ",",
      "\"", "e", "r", "r", "\"", ":", "\"", "b", "o", "o", "m", "\"", "}", " ">>
\* {"ms":1000...0}, the integer 10**309
LineObjectBig ==
    <<"{", "\"", "m", "s", "\"", ":", "1">> \o [i \in 1..309 |-> "0"] \o <<"}">>

\* json.loads(text), on the lines of the model
JsonLoads(text) ==
    CASE text = LineNumber -> Ok(IntV(5))
      [] text = LineArray -> Ok(ListV(<<>>))
      [] text = LineObjectF -> Ok(DictV(("fn" :> StrV(<<"f">>)) @@ ("tid" :> StrV(<<"a">>))))
      [] text = Strip(LineObjectG) ->
            Ok(DictV(("fn" :> StrV(<<"g">>)) @@ ("err" :> StrV(<<"b", "o", "o", "m">>))))
      [] text = LineObjectBig -> Ok(DictV("ms" :> BigIntV))
      [] OTHER -> Raise("JSONDecodeError")

\* The file system the calls run in: one file, and the directories every
\* working directory has.
FileName == <<"f">>
FileText == <<"x", NewLine, "y", NewLine>>
Directories == {<<".">>, <<".", ".">>}
\* the longest file name the file system takes
NAME_MAX == 255

\* Path(source): the path of the empty string is the current directory
PathOf(s) == IF s = <<>> THEN <<".">> ELSE s

\* os.stat(path)
Stat(path) ==
    IF Len(path) > NAME_MAX THEN Raise("OSError")
    ELSE IF path = FileName THEN Ok("file")
    ELSE IF path \in Directories THEN Ok("dir")
    ELSE Raise("FileNotFoundError")

\* Path.exists(): false when nothing is there, true for a file and for a
\* directory; any other error of stat is raised
Exists(path) ==
    IF Stat(path).exc = "FileNotFoundError" THEN Ok(FALSE)
    ELSE IF IsRaise(Stat(path)) THEN Stat(path)
    ELSE Ok(TRUE)

\* Path.read_text()
ReadText(path) ==
    IF IsRaise(Stat(path)) THEN Stat(path)
    ELSE IF Stat(path).value = "dir" THEN Raise("IsADirectoryError")
    ELSE Ok(FileText)

HasNewLine(s) == \E i \in 1..Len(s) : s[i] = NewLine

\* str.splitlines(), for texts whose only line break is "\n"
RECURSIVE splitlines(_)
splitlines(s) ==
    IF s = <<>> THEN <<>>
    ELSE IF ~HasNewLine(s) THEN <<s>>
    ELSE LET i == CHOOSE k \in 1..Len(s) :
                    s[k] = NewLine /\ \A j \in 1..(k - 1) : s[j] # NewLine
         IN <<SubSeq(s, 1, i - 1)>> \o splitlines(SubSeq(s, i + 1, Len(s)))

ReadFile(path) == IF IsRaise(ReadText(path)) THEN ReadText(path) ELSE Ok(splitlines(ReadText(path).value))

\* a Path is read; a str is read when it has no line break and its path exists,
\* and is split otherwise; anything else is iterated
_read_lines(source) ==
    CASE source.t = "path" -> ReadFile(PathOf(source.s))
      [] source.t = "str" ->
            IF HasNewLine(source.s) THEN Ok(splitlines(source.s))
            ELSE IF IsRaise(Exists(PathOf(source.s))) THEN Exists(PathOf(source.s))
            ELSE IF Exists(PathOf(source.s)).value THEN ReadFile(PathOf(source.s))
            ELSE Ok(splitlines(source.s))
      [] OTHER -> Ok([i \in 1..Len(source.items) |-> Str(source.items[i])])

InvalidJson(line_no) == [exc |-> "ValueError", message |-> "Invalid JSON on line", line_no |-> line_no]
NotAnObject(line_no) == [exc |-> "ValueError", message |-> "is not an object", line_no |-> line_no]

\* one iteration of the loop: None for "continue", the exception raised, or the
\* event appended
ParseLine(self, line_no, line, strict) ==
    LET Object(payload) ==
            IF payload.t # "dict"
            THEN (IF strict THEN NotAnObject(line_no) ELSE Ok(None))
            ELSE normalize_entry(self, payload)
        Loaded(payload) ==
            IF IsRaise(payload)
            THEN (IF strict THEN InvalidJson(line_no) ELSE Ok(None))
            ELSE Object(payload.value)
    IN IF Strip(line) = <<>> THEN Ok(None) ELSE Loaded(JsonLoads(Strip(line)))

RECURSIVE ParseLines(_, _, _, _, _)
ParseLines(self, lines, line_no, strict, events) ==
    IF line_no > Len(lines) THEN Ok(events)
    ELSE LET Continue(event) ==
                ParseLines(self, lines, line_no + 1, strict,
                           IF event = None THEN events ELSE Append(events, event))
         IN Then(ParseLine(self, line_no, lines[line_no], strict), Continue)

parse_jsonl(self, source, strict) ==
    LET Parse(lines) == ParseLines(self, lines, 1, strict, <<>>)
    IN Then(_read_lines(source), Parse)

(***************************************************************************)
(* LogFlowParser.compress_for_llm                                          *)
(* The text is the sequence of its lines (the code joins them with "\n");  *)
(* a line is a record of its kind and of the values formatted into it.     *)
(***************************************************************************)
GraphV(graph) == [t |-> "graph", graph |-> graph]

StatsKey == <<"s", "t", "a", "t", "s">>
NodesKey == <<"n", "o", "d", "e", "s">>
EdgesKey == <<"e", "d", "g", "e", "s">>

\* isinstance(x, Mapping) and "stats" in x and "nodes" in x and "edges" in x
IsFlowGraph(arg) ==
    \/ arg.t = "graph"
    \/ /\ arg.t = "mapping"
       /\ \A k \in {StatsKey, NodesKey, EdgesKey} :
             \E i \in 1..Len(arg.items) : arg.items[i].key = StrV(k)

\* seq[:stop]
SliceTo(seq, stop) ==
    LET n == Len(seq)
        end == IF stop >= 0
               THEN (IF stop < n THEN stop ELSE n)
               ELSE (IF n + stop > 0 THEN n + stop ELSE 0)
    IN SubSeq(seq, 1, end)

Line(text) == [kind |-> "text", text |-> text]

NodeLine(node) ==
    [kind |-> "node", id |-> node.id, calls |-> node.calls, errors |-> node.errors,
     avg_ms |-> node.avg_duration_ms]

EdgeLine(edge) ==
    [kind |-> "edge", source |-> edge.source, target |-> edge.target,
     count |-> edge.count, error_count |-> edge.error_count]

EventLine(event) ==
    [kind |-> "event",
     ts |-> IF event.timestamp # <<>> THEN event.timestamp
            ELSE <<"u", "n", "k", "n", "o", "w", "n", "-", "t", "s">>,
     status |-> IF event.exception # <<>> THEN "ERR" ELSE "OK",
     node |-> event.node,
     duration |-> event.duration_ms,
     exception_type |-> event.exception_type]

\* f"- ... {n} more {what}"
MoreLine(n, what) == [kind |-> "more", n |-> n, what |-> what]

\* the lines of one rendered trace
TraceLines(trace, max_events_per_trace) ==
    LET shown == SliceTo(trace.events, max_events_per_trace)
    IN <<[kind |-> "trace", trace_id |-> trace.trace_id,
          events |-> trace.event_count, errors |-> trace.error_count]>>
       \o [i \in 1..Len(shown) |-> EventLine(shown[i])]
       \o (IF trace.event_count > max_events_per_trace
           THEN <<MoreLine(trace.event_count - max_events_per_trace, "events in this trace")>>
           ELSE <<>>)

NodeSection(nodes, max_nodes) ==
    LET shown == SliceTo(nodes, max_nodes)
    IN [i \in 1..Len(shown) |-> NodeLine(shown[i])]
       \o (IF Len(nodes) > max_nodes
           THEN <<MoreLine(Len(nodes) - max_nodes, "nodes")>> ELSE <<>>)

EdgeSection(edges, max_edges) ==
    LET shown == SliceTo(edges, max_edges)
    IN [i \in 1..Len(shown) |-> EdgeLine(shown[i])]
       \o (IF Len(edges) > max_edges
           THEN <<MoreLine(Len(edges) - max_edges, "edges")>> ELSE <<>>)

TraceSection(traces, max_traces, max_events_per_trace) ==
    LET shown == SliceTo(traces, max_traces)
    IN Flatten([i \in 1..Len(shown) |-> TraceLines(shown[i], max_events_per_trace)])
       \o (IF Len(traces) > max_traces
           THEN <<MoreLine(Len(traces) - max_traces, "traces")>> ELSE <<>>)

Render(graph, max_nodes, max_edges, max_traces, max_events_per_trace) ==
    <<Line("# nfo Log Flow Compression"),
      Line("## Summary"),
      [kind |-> "stat", text |-> "- traces: ", n |-> graph.stats.trace_count],
      [kind |-> "stat", text |-> "- events: ", n |-> graph.stats.event_count],
      [kind |-> "stat", text |-> "- nodes: ", n |-> graph.stats.node_count],
      [kind |-> "stat", text |-> "- edges: ", n |-> graph.stats.edge_count],
      [kind |-> "stat", text |-> "- errors: ", n |-> graph.stats.error_count],
      Line(""),
      Line("## Top Nodes")>>
    \o NodeSection(graph.nodes, max_nodes)
    \o <<Line(""), Line("## Top Edges")>>
    \o EdgeSection(graph.edges, max_edges)
    \o <<Line(""), Line("## Trace Timelines")>>
    \o TraceSection(graph.traces, max_traces, max_events_per_trace)

\* The characters of a line as the f-strings format it: a literal, a number, or a
\* character of a value formatted into the line.
Lit(text) == [lit |-> text]
Num(n) == [num |-> n]
Chars(s) == [i \in 1..Len(s) |-> [ch |-> s[i]]]

Formatted(line) ==
    CASE line.kind = "text" -> <<Lit(line.text)>>
      [] line.kind = "stat" -> <<Lit(line.text), Num(line.n)>>
      [] line.kind = "node" ->
            <<Lit("- ")>> \o Chars(line.id)
            \o <<Lit(": calls="), Num(line.calls), Lit(", errors="), Num(line.errors),
                 Lit(", avg_ms="), Num(line.avg_ms)>>
      [] line.kind = "edge" ->
            <<Lit("- ")>> \o Chars(line.source) \o <<Lit(" -> ")>> \o Chars(line.target)
            \o <<Lit(": count="), Num(line.count),
                 Lit(", error_count="), Num(line.error_count)>>
      [] line.kind = "trace" ->
            <<Lit("### trace_id=")>> \o Chars(line.trace_id)
            \o <<Lit(" (events="), Num(line.events), Lit(", errors="), Num(line.errors),
                 Lit(")")>>
      [] line.kind = "event" ->
            <<Lit("- ")>> \o Chars(line.ts) \o <<Lit(" | "), Lit(line.status), Lit(" | ")>>
            \o Chars(line.node) \o <<Lit(" | "), Num(line.duration), Lit("ms")>>
            \o (IF line.exception_type # <<>>
                THEN <<Lit(" | ")>> \o Chars(line.exception_type) ELSE <<>>)
      [] line.kind = "more" ->
            <<Lit("- ... "), Num(line.n), Lit(" more "), Lit(line.what)>>

IsNewLine(item) == "ch" \in DOMAIN item /\ item.ch = NewLine

\* the pieces of a formatted line between its line breaks
RECURSIVE SplitLines(_)
SplitLines(items) ==
    LET breaks == {i \in 1..Len(items) : IsNewLine(items[i])}
        first == CHOOSE i \in breaks : \A j \in breaks : i <= j
    IN IF breaks = {} THEN <<items>>
       ELSE <<SubSeq(items, 1, first - 1)>>
            \o SplitLines(SubSeq(items, first + 1, Len(items)))

\* the title and the section headers, character by character
FixedLines ==
    {[text |-> "# nfo Log Flow Compression",
      chars |-> <<"#", " ", "n", "f", "o", " ", "L", "o", "g", " ", "F", "l", "o", "w",
                  " ", "C", "o", "m", "p", "r", "e", "s", "s", "i", "o", "n">>],
     [text |-> "## Summary",
      chars |-> <<"#", "#", " ", "S", "u", "m", "m", "a", "r", "y">>],
     [text |-> "## Top Nodes",
      chars |-> <<"#", "#", " ", "T", "o", "p", " ", "N", "o", "d", "e", "s">>],
     [text |-> "## Top Edges",
      chars |-> <<"#", "#", " ", "T", "o", "p", " ", "E", "d", "g", "e", "s">>],
     [text |-> "## Trace Timelines",
      chars |-> <<"#", "#", " ", "T", "r", "a", "c", "e", " ", "T", "i", "m", "e", "l",
                  "i", "n", "e", "s">>]}

\* a piece of a formatted line, as a line of the text: made of characters of one
\* value only, it reads as those characters, and is the fixed line they spell
PieceLine(piece) ==
    IF \A i \in 1..Len(piece) : "ch" \in DOMAIN piece[i]
    THEN LET chars == [i \in 1..Len(piece) |-> piece[i].ch]
         IN IF \E f \in FixedLines : f.chars = chars
            THEN Line((CHOOSE f \in FixedLines : f.chars = chars).text)
            ELSE [kind |-> "raw", chars |-> chars]
    ELSE [kind |-> "part", items |-> piece]

\* "\n".join(lines), as the lines a reader of the text finds in it: a line that
\* holds no line break is the line itself
TextLines(lines) ==
    Flatten([i \in 1..Len(lines) |->
               LET pieces == SplitLines(Formatted(lines[i]))
               IN IF Len(pieces) = 1 THEN <<lines[i]>>
                  ELSE [p \in 1..Len(pieces) |-> PieceLine(pieces[p])]])

compress_for_llm(self, graph_or_entries, max_nodes, max_edges, max_traces, max_events_per_trace) ==
    IF IsFlowGraph(graph_or_entries)
    THEN IF graph_or_entries.t = "graph"
         THEN Ok(Render(graph_or_entries.graph, max_nodes, max_edges, max_traces,
                        max_events_per_trace))
         \* stats is a bucket of entries: stats.get raises
         ELSE Raise("AttributeError")
    ELSE LET Text(graph) == Ok(Render(graph, max_nodes, max_edges, max_traces,
                                      max_events_per_trace))
         IN Then(build_flow_graph(self, graph_or_entries), Text)

(***************************************************************************)
(* The entries, lines and budgets callers pass                             *)
(***************************************************************************)
A == <<"a">>
B == <<"b">>
F == <<"f">>
G == <<"g">>
M == <<"m">>
Boom == <<"b", "o", "o", "m">>

\* a key that may be absent: no item, or the key with one of the values
Opt(key, values) == {EmptyDict} \cup {key :> v : v \in values}

\* the batches of Spec: full and compact records of two traces and of none
Entries ==
    {DictV(d) : d \in
        {("tid" :> StrV(A)) @@ ("fn" :> StrV(F)) @@ ("ts" :> StrV(Ts15)),
         ("trace_id" :> StrV(A)) @@ ("function_name" :> StrV(G)) @@ ("module" :> StrV(M))
            @@ ("timestamp" :> StrV(Ts15)) @@ ("exception" :> StrV(Boom)),
         ("tid" :> StrV(A)) @@ ("fn" :> StrV(G)) @@ ("ts" :> StrV(Ts16)),
         ("tid" :> StrV(B)) @@ ("fn" :> StrV(F)) @@ ("ts" :> StrV(Ts15T10Z)),
         ("trace_id" :> StrV(B)) @@ ("fn" :> StrV(G)) @@ ("ts" :> StrV(TsBad))
            @@ ("ms" :> IntV(5)),
         ("fn" :> StrV(F)) @@ ("mod" :> StrV(M)) @@ ("ts" :> StrV(Ts15T10Utc))
            @@ ("err" :> StrV(Boom)),
         ("trace_id" :> StrV(<<" ">>)) @@ ("fn" :> StrV(M \o <<".">> \o F)),
         ("extra" :> DictV("trace_id" :> StrV(B))) @@ ("fn" :> StrV(F))
            @@ ("ts" :> StrV(Ts15T10))}}

\* the entries a caller files under the keys of an already-grouped mapping
GroupedEntries ==
    {DictV(d) : d \in
        {("tid" :> StrV(A)) @@ ("fn" :> StrV(F)) @@ ("ts" :> StrV(Ts15)),
         ("tid" :> StrV(A)) @@ ("fn" :> StrV(G)) @@ ("ts" :> StrV(Ts16))
            @@ ("err" :> StrV(Boom)),
         ("tid" :> StrV(B)) @@ ("fn" :> StrV(G)) @@ ("ts" :> StrV(Ts15)),
         ("fn" :> StrV(F)) @@ ("mod" :> StrV(M))}}

GroupedKeys == {StrV(A), StrV(B)}

\* the records of SpecNormalize: every combination of what the trace id, duration
\* and timestamp keys may hold
RawEntries ==
    {DictV(trace_id @@ tid @@ extra @@ duration_ms @@ ms @@ timestamp @@ ts) :
        trace_id \in Opt("trace_id", {None, StrV(<<>>), StrV(<<" ">>), StrV(A),
                                      StrV(<<" ", "a", " ">>)}),
        tid \in Opt("tid", {StrV(B), StrV(<<" ">>)}),
        extra \in Opt("extra", {DictV("trace_id" :> StrV(B)), DictV("tid" :> StrV(A)),
                                StrV(F)}),
        duration_ms \in Opt("duration_ms", {None, IntV(5), StrV(<<"7">>), StrV(<<"x">>),
                                            BigIntV, ListV(<<IntV(1)>>)}),
        ms \in Opt("ms", {IntV(3)}),
        timestamp \in Opt("timestamp", {None, StrV(Ts15), StrV(Ts15T10Z), StrV(TsBad),
                                        IntV(5), ListV(<<IntV(1)>>)}),
        ts \in Opt("ts", {StrV(Ts16)})}

\* the eight canonical fields: the event's field, the long-form key, its
\* abbreviation, and a value for each of the two keys
Fields ==
    {[name |-> "timestamp", long |-> "timestamp", short |-> "ts",
      a |-> StrV(Ts15), b |-> StrV(Ts16)],
     [name |-> "function_name", long |-> "function_name", short |-> "fn",
      a |-> StrV(F), b |-> StrV(G)],
     [name |-> "module", long |-> "module", short |-> "mod",
      a |-> StrV(M), b |-> StrV(A)],
     [name |-> "level", long |-> "level", short |-> "lvl",
      a |-> StrV(<<"e", "r", "r", "o", "r">>), b |-> StrV(<<"i", "n", "f", "o">>)],
     [name |-> "trace_id", long |-> "trace_id", short |-> "tid",
      a |-> StrV(A), b |-> StrV(B)],
     [name |-> "duration_ms", long |-> "duration_ms", short |-> "ms",
      a |-> IntV(5), b |-> IntV(3)],
     [name |-> "exception", long |-> "exception", short |-> "err",
      a |-> StrV(Boom), b |-> StrV(<<"x">>)],
     [name |-> "exception_type", long |-> "exception_type", short |-> "et",
      a |-> StrV(<<"E">>), b |-> StrV(<<"T">>)]}

\* the record that holds every long-form key and every abbreviation
FullEntry ==
    LET Put(S) == [k \in {f.long : f \in S} \cup {f.short : f \in S} |->
                      LET f == CHOOSE g \in S : k \in {g.long, g.short}
                      IN IF k = f.long THEN f.a ELSE f.b]
    IN DictV(Put(Fields))

\* the records of SpecFields: one field at a time, its long-form key absent, null,
\* empty or set and its abbreviation absent or set; and the full record
FieldEntries ==
    {FullEntry} \cup
    UNION {{DictV(long @@ short) :
                long \in Opt(f.long, {None, StrV(<<>>), f.a}),
                short \in Opt(f.short, {f.b})} : f \in Fields}

\* the lines of SpecJsonl
Lines ==
    {StrV(line) : line \in {LineBlank, LineSpaces, LineNotJson, LineNumber, LineArray,
                            LineObjectF, LineObjectG, LineObjectBig}}

\* values that are neither a LogEntry nor a mapping
NonEntries == {None, IntV(5), StrV(F)}

MaxEntries == 3

\* the entries of SpecCompress: three nodes, two traces, and an exception_type of
\* two lines
SmallEntries ==
    {DictV(d) : d \in
        {("tid" :> StrV(A)) @@ ("fn" :> StrV(F)) @@ ("ts" :> StrV(Ts15)),
         ("tid" :> StrV(A)) @@ ("fn" :> StrV(G)) @@ ("ts" :> StrV(Ts16))
            @@ ("err" :> StrV(Boom)),
         ("tid" :> StrV(B)) @@ ("fn" :> StrV(F)) @@ ("mod" :> StrV(M))
            @@ ("et" :> StrV(<<"E", NewLine, "#", "#", " ", "T", "o", "p", " ",
                               "N", "o", "d", "e", "s">>))}}

\* the trace ids a caller of SpecDetect uses as keys, and the buckets it stores
DetectKeys == {StrV(A), StrV(StatsKey), StrV(NodesKey), StrV(EdgesKey)}
DetectBuckets == {<<>>} \cup {<<e>> : e \in SmallEntries}

\* the budgets a caller passes to compress_for_llm
MaxBudget == 1
Budgets == (-1)..MaxBudget

\* compress_for_llm's defaults
DefaultMaxNodes == 60
DefaultMaxEdges == 80
DefaultMaxTraces == 8
DefaultMaxEventsPerTrace == 12

(***************************************************************************)
(* The calls.  The caller assembles an argument, makes one call on it and  *)
(* may go on assembling: call is the outcome of the call made on the       *)
(* argument as it stands.                                                  *)
(***************************************************************************)
NoCall == [op |-> "none"]

\* no sink has been constructed
NoSink ==
    /\ sink = None
    /\ threads = None
    /\ delegate = <<>>
    /\ history = None
    /\ ring = None

Returned(op) == call.op = op /\ ~IsRaise(call.result)

EntriesOf(arg) ==
    IF arg.t = "mapping"
    THEN Flatten([i \in 1..Len(arg.items) |-> arg.items[i].value])
    ELSE arg.items

AppendFrom(S) ==
    /\ input.t = "list"
    /\ Len(input.items) < MaxEntries
    /\ \E e \in S : input' = ListV(Append(input.items, e))
    /\ call' = NoCall
    /\ UNCHANGED <<missing_trace_id, sinkVars>>

\* the caller adds an entry to the sequence it will pass
AppendEntry == AppendFrom(Entries \cup NonEntries)

AppendSmallEntry == AppendFrom(SmallEntries)

\* the caller adds a line to the lines it will pass
AppendLine == AppendFrom(Lines)

\* the entries of SpecOrder: two records of one trace that tie on sort_key,
\* function_name and module, one of them with an exception, and two others
TieEntries ==
    {DictV(d) : d \in
        {("fn" :> StrV(F)) @@ ("err" :> StrV(Boom)),
         ("fn" :> StrV(F)),
         ("fn" :> StrV(G)) @@ ("ts" :> StrV(Ts16)),
         ("tid" :> StrV(B)) @@ ("fn" :> StrV(F)) @@ ("ts" :> StrV(Ts15))}}

AppendTieEntry == AppendFrom(TieEntries)

\* the orders a sequence of n entries can be passed in
Orders(n) ==
    {f \in [1..n -> 1..n] : \A i, j \in 1..n : f[i] = f[j] => i = j}

\* the caller passes the entries of the sequence in another order
BuildPermuted ==
    /\ call = NoCall
    /\ input.t = "list"
    /\ \E f \in Orders(Len(input.items)) :
          LET permuted == ListV([i \in 1..Len(input.items) |-> input.items[f[i]]])
          IN call' = [op |-> "build_permuted", permuted |-> permuted,
                      result |-> build_flow_graph(missing_trace_id, permuted)]
    /\ UNCHANGED <<missing_trace_id, input, sinkVars>>

\* the characters of the texts of SpecRead
MaxSource == 3
SourceChars == {"f", ".", "x", NewLine}

\* the caller types one more character of the text it will pass
TypeChar ==
    /\ call = NoCall
    /\ input.t = "str"
    /\ Len(input.s) < MaxSource
    /\ \E c \in SourceChars : input' = StrV(Append(input.s, c))
    /\ UNCHANGED <<missing_trace_id, call, sinkVars>>

\* the caller takes one JSONL line as the text it will pass
PasteLine ==
    /\ call = NoCall
    /\ input = StrV(<<>>)
    /\ \E line \in Lines : input' = line
    /\ UNCHANGED <<missing_trace_id, call, sinkVars>>

\* the caller wraps the text in a Path
AsPath ==
    /\ call = NoCall
    /\ input.t = "str"
    /\ input' = PathV(input.s)
    /\ UNCHANGED <<missing_trace_id, call, sinkVars>>

ReadLines ==
    /\ call = NoCall
    /\ call' = [op |-> "_read_lines", source |-> input, result |-> _read_lines(input)]
    /\ UNCHANGED <<missing_trace_id, input, sinkVars>>

\* the caller files an entry under a key of the mapping it will pass
PutEntry ==
    /\ input.t = "mapping"
    /\ Len(EntriesOf(input)) < MaxEntries
    /\ \E k \in GroupedKeys, e \in GroupedEntries :
          LET items == input.items
              at == {i \in 1..Len(items) : items[i].key = k}
          IN input' = MappingV(
                IF at = {}
                THEN Append(items, [key |-> k, value |-> <<e>>])
                ELSE [i \in 1..Len(items) |->
                        IF i \in at
                        THEN [key |-> k, value |-> Append(items[i].value, e)]
                        ELSE items[i]])
    /\ call' = NoCall
    /\ UNCHANGED <<missing_trace_id, sinkVars>>

\* the caller stores a bucket under a new key of the mapping it will pass
PutBucket ==
    /\ input.t = "mapping"
    /\ \E k \in DetectKeys, bucket \in DetectBuckets :
          /\ \A i \in 1..Len(input.items) : input.items[i].key # k
          /\ input' = MappingV(Append(input.items, [key |-> k, value |-> bucket]))
    /\ call' = NoCall
    /\ UNCHANGED <<missing_trace_id, sinkVars>>

\* the caller adds a trace id with no entries to the mapping it will pass
PutEmpty ==
    /\ input.t = "mapping"
    /\ \E k \in GroupedKeys :
          /\ \A i \in 1..Len(input.items) : input.items[i].key # k
          /\ input' = MappingV(Append(input.items, [key |-> k, value |-> <<>>]))
    /\ call' = NoCall
    /\ UNCHANGED <<missing_trace_id, sinkVars>>

\* the caller builds the graph of its sequence and keeps it, to pass it on
KeepGraph ==
    /\ input.t = "list"
    /\ \E graph \in {build_flow_graph(missing_trace_id, input)} :
          /\ ~IsRaise(graph)
          /\ input' = GraphV(graph.value)
    /\ call' = NoCall
    /\ UNCHANGED <<missing_trace_id, sinkVars>>

NormalizeEntry ==
    /\ call = NoCall
    /\ input.t = "list"
    /\ \E i \in 1..Len(input.items) :
          call' = [op |-> "normalize_entry", index |-> i,
                   result |-> normalize_entry(missing_trace_id, input.items[i])]
    /\ UNCHANGED <<missing_trace_id, input, sinkVars>>

\* the caller normalizes again the event normalize_entry returned
Renormalize ==
    /\ Returned("normalize_entry")
    /\ call' = [op |-> "renormalize", event |-> call.result.value,
                result |-> normalize_entry(missing_trace_id,
                                           EventAsEntry(call.result.value))]
    /\ UNCHANGED <<missing_trace_id, input, sinkVars>>

\* a group_by_trace_id that leaves the caller's sequence in reverse order
GroupByTraceId_ReversesInput ==
    /\ call = NoCall
    /\ input.t = "list"
    /\ call' = [op |-> "group_by_trace_id",
                result |-> group_by_trace_id(missing_trace_id, input.items)]
    /\ input' = ListV([i \in 1..Len(input.items) |->
                         input.items[Len(input.items) + 1 - i]])
    /\ UNCHANGED <<missing_trace_id, sinkVars>>

GroupByTraceId ==
    /\ call = NoCall
    /\ input.t = "list"
    /\ call' = [op |-> "group_by_trace_id",
                result |-> group_by_trace_id(missing_trace_id, input.items)]
    /\ UNCHANGED <<missing_trace_id, input, sinkVars>>

\* the caller groups again what group_by_trace_id returned, its buckets
\* concatenated in the order of the mapping
Regroup ==
    /\ Returned("group_by_trace_id")
    /\ call' = [op |-> "regroup", grouped |-> call.result.value,
                result |-> group_by_trace_id(missing_trace_id,
                                             Concatenated(call.result.value))]
    /\ UNCHANGED <<missing_trace_id, input, sinkVars>>

\* the caller builds the graph of what group_by_trace_id returned
BuildFromGrouped ==
    /\ Returned("group_by_trace_id")
    /\ call' = [op |-> "build_from_grouped", grouped |-> call.result.value,
                result |-> build_flow_graph(missing_trace_id,
                                            GroupedAsMapping(call.result.value))]
    /\ UNCHANGED <<missing_trace_id, input, sinkVars>>

BuildFlowGraph ==
    /\ call = NoCall
    /\ input.t \in {"list", "mapping"}
    /\ call' = [op |-> "build_flow_graph",
                result |-> build_flow_graph(missing_trace_id, input)]
    /\ UNCHANGED <<missing_trace_id, input, sinkVars>>

CompressForLlm ==
    /\ call = NoCall
    /\ input.t \in {"list", "mapping", "graph"}
    /\ \E max_nodes \in Budgets, max_edges \in Budgets, max_traces \in Budgets,
          max_events_per_trace \in Budgets :
          call' = [op |-> "compress_for_llm",
                   max_nodes |-> max_nodes, max_edges |-> max_edges,
                   max_traces |-> max_traces,
                   max_events_per_trace |-> max_events_per_trace,
                   result |-> compress_for_llm(missing_trace_id, input, max_nodes,
                                               max_edges, max_traces,
                                               max_events_per_trace)]
    /\ UNCHANGED <<missing_trace_id, input, sinkVars>>

\* compress_for_llm(x), the budgets left at their defaults
CompressForLlmDefault ==
    /\ call = NoCall
    /\ input.t \in {"list", "mapping", "graph"}
    /\ call' = [op |-> "compress_for_llm",
                max_nodes |-> DefaultMaxNodes, max_edges |-> DefaultMaxEdges,
                max_traces |-> DefaultMaxTraces,
                max_events_per_trace |-> DefaultMaxEventsPerTrace,
                result |-> compress_for_llm(missing_trace_id, input, DefaultMaxNodes,
                                            DefaultMaxEdges, DefaultMaxTraces,
                                            DefaultMaxEventsPerTrace)]
    /\ UNCHANGED <<missing_trace_id, input, sinkVars>>

\* the call made last, made again on the argument as it now is
Rerun ==
    CASE call.op = "normalize_entry" ->
            normalize_entry(missing_trace_id, input.items[call.index])
      [] call.op = "group_by_trace_id" -> group_by_trace_id(missing_trace_id, input.items)
      [] call.op = "build_flow_graph" -> build_flow_graph(missing_trace_id, input)
      [] call.op = "compress_for_llm" ->
            compress_for_llm(missing_trace_id, input, call.max_nodes, call.max_edges,
                             call.max_traces, call.max_events_per_trace)

\* the caller repeats the call: first is what the call returned the first time
Again ==
    /\ call.op \in {"normalize_entry", "group_by_trace_id", "build_flow_graph",
                    "compress_for_llm"}
    /\ "first" \notin DOMAIN call
    /\ call' = [first |-> call.result] @@ [call EXCEPT !.result = Rerun]
    /\ UNCHANGED <<missing_trace_id, input, sinkVars>>

ParseJsonl ==
    /\ call = NoCall
    /\ input.t = "list"
    /\ \E strict \in BOOLEAN :
          call' = [op |-> "parse_jsonl", strict |-> strict,
                   result |-> parse_jsonl(missing_trace_id, input, strict)]
    /\ UNCHANGED <<missing_trace_id, input, sinkVars>>

(***************************************************************************)
(* Spec: a parser, a batch assembled by the caller (a sequence or an       *)
(* already-grouped mapping), normalized, grouped, built into a graph and   *)
(* compressed.                                                             *)
(***************************************************************************)
Init ==
    /\ missing_trace_id \in {NoTrace, Padded}
    /\ input \in {ListV(<<>>), MappingV(<<>>)}
    /\ call = NoCall
    /\ NoSink

Next ==
    \/ AppendEntry
    \/ PutEntry
    \/ NormalizeEntry
    \/ GroupByTraceId
    \/ Regroup
    \/ BuildFromGrouped
    \/ BuildFlowGraph
    \/ CompressForLlmDefault

Spec == Init /\ [][Next]_vars

(***************************************************************************)
(* SpecCompress: compress_for_llm under every budget, of a sequence of     *)
(* entries and of the graph built from it.                                 *)
(***************************************************************************)
InitCompress ==
    /\ missing_trace_id = NoTrace
    /\ input = ListV(<<>>)
    /\ call = NoCall
    /\ NoSink

NextCompress ==
    \/ AppendSmallEntry
    \/ KeepGraph
    \/ CompressForLlm

SpecCompress == InitCompress /\ [][NextCompress]_vars

(***************************************************************************)
(* SpecNormalize: one record, holding any combination of values under the  *)
(* trace id, duration and timestamp keys, normalized and grouped.          *)
(***************************************************************************)
InitNormalize ==
    /\ missing_trace_id \in {NoTrace, Unknown, NoSentinel, Padded}
    /\ input \in {ListV(<<e>>) : e \in RawEntries}
    /\ call = NoCall
    /\ NoSink

NextNormalize ==
    \/ NormalizeEntry
    \/ Renormalize
    \/ GroupByTraceId

SpecNormalize == InitNormalize /\ [][NextNormalize]_vars

(***************************************************************************)
(* SpecJsonl: parse_jsonl, strict and not, on the lines a caller passes.   *)
(***************************************************************************)
InitJsonl ==
    /\ missing_trace_id = NoTrace
    /\ input = ListV(<<>>)
    /\ call = NoCall
    /\ NoSink

NextJsonl ==
    \/ AppendLine
    \/ ParseJsonl

SpecJsonl == InitJsonl /\ [][NextJsonl]_vars

(***************************************************************************)
(* SpecFields: one record, holding a canonical field under its long-form   *)
(* key, its abbreviation, both or neither, normalized.                     *)
(***************************************************************************)
InitFields ==
    /\ missing_trace_id \in {NoTrace, Unknown}
    /\ input \in {ListV(<<e>>) : e \in FieldEntries}
    /\ call = NoCall
    /\ NoSink

NextFields == NormalizeEntry

SpecFields == InitFields /\ [][NextFields]_vars

(***************************************************************************)
(* SpecDetect: compress_for_llm of an already-grouped mapping, whose trace *)
(* ids may be the keys a flow graph is detected by.                        *)
(***************************************************************************)
InitDetect ==
    /\ missing_trace_id = NoTrace
    /\ input = MappingV(<<>>)
    /\ call = NoCall
    /\ NoSink

NextDetect ==
    \/ PutBucket
    \/ CompressForLlmDefault

SpecDetect == InitDetect /\ [][NextDetect]_vars

(***************************************************************************)
(* SpecRead: _read_lines on the texts and paths a caller passes.           *)
(***************************************************************************)
InitRead ==
    /\ missing_trace_id = NoTrace
    /\ input = StrV(<<>>)
    /\ call = NoCall
    /\ NoSink

NextRead ==
    \/ TypeChar
    \/ PasteLine
    \/ AsPath
    \/ ReadLines

SpecRead == InitRead /\ [][NextRead]_vars

(***************************************************************************)
(* SpecOrder: build_flow_graph on the same entries in every order.         *)
(***************************************************************************)
InitOrder ==
    /\ missing_trace_id = NoTrace
    /\ input = ListV(<<>>)
    /\ call = NoCall
    /\ NoSink

NextOrder ==
    \/ AppendTieEntry
    \/ BuildPermuted

SpecOrder == InitOrder /\ [][NextOrder]_vars

(***************************************************************************)
(* SpecFrame: every operation of the core on a sequence, a mapping or a    *)
(* graph the caller keeps, and the same call made again.                   *)
(***************************************************************************)
InitFrame ==
    /\ missing_trace_id \in {NoTrace, Unknown}
    /\ input \in {ListV(<<>>), MappingV(<<>>)}
    /\ call = NoCall
    /\ NoSink

NextFrame ==
    \/ AppendSmallEntry
    \/ PutEntry
    \/ KeepGraph
    \/ NormalizeEntry
    \/ GroupByTraceId
    \/ BuildFlowGraph
    \/ CompressForLlmDefault
    \/ Again

SpecFrame == InitFrame /\ [][NextFrame]_vars

(***************************************************************************)
(* SpecSummary: build_flow_graph on a sequence and on a mapping, some of   *)
(* whose trace ids may have no entries.                                    *)
(***************************************************************************)
InitSummary ==
    /\ missing_trace_id = NoTrace
    /\ input \in {ListV(<<>>), MappingV(<<>>)}
    /\ call = NoCall
    /\ NoSink

NextSummary ==
    \/ AppendEntry
    \/ PutEntry
    \/ PutEmpty
    \/ BuildFlowGraph

SpecSummary == InitSummary /\ [][NextSummary]_vars

(***************************************************************************)
(* AsyncBufferedSink (src/nfo/buffered_sink.py)                            *)
(* Caller threads call write(), flush() and close(); the background thread *)
(* runs _flush_loop.  Every line that reads or writes a shared field       *)
(* outside the lock is a step of its own; the body of a "with self._lock"  *)
(* block is one step, taken with the lock held.                            *)
(***************************************************************************)
Writers == {"w1", "w2"}
Flushers == {"f1"}
Closers == {"c1"}
Background == "bg"
Threads == Writers \cup Flushers \cup Closers \cup {Background}

\* the write() calls made in a run, and the levels of their entries
MaxWrites == 2
Levels == {"INFO", "ERROR"}

LogEntry(id, level) == [id |-> id, level |-> level]

\* AsyncBufferedSink.__init__, and the thread it starts
NewSink(buffer_size, flush_on_error) ==
    [_buffer_size |-> IF buffer_size > 1 THEN buffer_size ELSE 1,
     _flush_on_error |-> flush_on_error,
     _buffer |-> <<>>,
     _lock |-> "free",
     _closed |-> FALSE,
     _flush_event |-> FALSE]

Idle == [pc |-> "idle", entry |-> None, should_flush |-> FALSE, batch |-> <<>>, ret |-> "idle"]

\* thread t moves to pc
At(t, pc) == [threads EXCEPT ![t].pc = pc]

\* write() is called with a new entry
Write(t) ==
    /\ t \in Writers
    /\ threads[t].pc = "idle"
    /\ history.writes < MaxWrites
    /\ \E level \in Levels :
          LET entry == LogEntry(history.writes + 1, level)
          IN /\ threads' = [threads EXCEPT ![t].pc = "write", ![t].entry = entry]
             /\ history' = [history EXCEPT
                              !.writes = @ + 1,
                              !.late = IF history.close_returned THEN @ \cup {entry} ELSE @]
    /\ UNCHANGED <<sink, delegate, flowVars, ring>>

\* if self._closed: return
WriteCheckClosed(t) ==
    /\ threads[t].pc = "write"
    /\ threads' = At(t, IF sink._closed THEN "idle" ELSE "write_lock")
    /\ UNCHANGED <<sink, delegate, history, flowVars, ring>>

\* with self._lock: entered
WriteAcquire(t) ==
    /\ threads[t].pc = "write_lock"
    /\ sink._lock = "free"
    /\ sink' = [sink EXCEPT !._lock = t]
    /\ threads' = At(t, "write_append")
    /\ UNCHANGED <<delegate, history, flowVars, ring>>

\* self._buffer.append(entry); should_flush = ...; the lock is released
WriteAppend(t) ==
    /\ threads[t].pc = "write_append"
    /\ LET entry == threads[t].entry
           buffer == Append(sink._buffer, entry)
           should_flush ==
               \/ Len(buffer) >= sink._buffer_size
               \/ (sink._flush_on_error /\ entry.level \in {"ERROR", "CRITICAL"})
       IN /\ sink' = [sink EXCEPT !._buffer = buffer, !._lock = "free"]
          /\ threads' = [threads EXCEPT ![t].pc = "write_signal",
                                        ![t].should_flush = should_flush]
          /\ history' = [history EXCEPT
                           !.appended = Append(@, entry),
                           !.urgent = IF should_flush THEN @ \cup {entry.id} ELSE @]
    /\ UNCHANGED <<delegate, flowVars, ring>>

\* a WriteSignal that never sets the event
WriteSignal_Unsignalled(t) ==
    /\ threads[t].pc = "write_signal"
    /\ threads' = At(t, "idle")
    /\ UNCHANGED <<sink, delegate, history, flowVars, ring>>

\* if should_flush: self._flush_event.set()
WriteSignal(t) ==
    /\ threads[t].pc = "write_signal"
    /\ sink' = [sink EXCEPT !._flush_event = @ \/ threads[t].should_flush]
    /\ threads' = At(t, "idle")
    /\ UNCHANGED <<delegate, history, flowVars, ring>>

\* flush() is called
Flush(t) ==
    /\ t \in Flushers
    /\ threads[t].pc = "idle"
    /\ threads' = [threads EXCEPT ![t].pc = "do_flush", ![t].ret = "idle"]
    /\ UNCHANGED <<sink, delegate, history, flowVars, ring>>

\* _do_flush: with self._lock: entered
DoFlushAcquire(t) ==
    /\ threads[t].pc = "do_flush"
    /\ sink._lock = "free"
    /\ sink' = [sink EXCEPT !._lock = t]
    /\ threads' = At(t, "do_flush_take")
    /\ UNCHANGED <<delegate, history, flowVars, ring>>

\* if not self._buffer: return; batch = list(self._buffer); self._buffer.clear();
\* the lock is released
DoFlushTake(t) ==
    /\ threads[t].pc = "do_flush_take"
    /\ sink' = [sink EXCEPT !._buffer = <<>>, !._lock = "free"]
    /\ threads' =
          IF sink._buffer = <<>>
          THEN At(t, threads[t].ret)
          ELSE [threads EXCEPT ![t].pc = "do_flush_write", ![t].batch = sink._buffer]
    /\ UNCHANGED <<delegate, history, flowVars, ring>>

\* one iteration of "for entry in batch": self._delegate.write(entry), whatever
\* it raises; after the last one _do_flush returns
DoFlushWrite(t) ==
    /\ threads[t].pc = "do_flush_write"
    /\ delegate' = Append(delegate, [op |-> "write", entry |-> Head(threads[t].batch)])
    /\ threads' =
          [threads EXCEPT
             ![t].batch = Tail(@),
             ![t].pc = IF Len(threads[t].batch) = 1 THEN threads[t].ret ELSE @]
    /\ UNCHANGED <<sink, history, flowVars, ring>>

\* close() is called
Close(t) ==
    /\ t \in Closers
    /\ threads[t].pc = "idle"
    /\ threads' = At(t, "close")
    /\ UNCHANGED <<sink, delegate, history, flowVars, ring>>

\* if self._closed: return
CloseCheckClosed(t) ==
    /\ threads[t].pc = "close"
    /\ threads' = At(t, IF sink._closed THEN "idle" ELSE "close_set")
    /\ history' = [history EXCEPT !.close_returned = @ \/ sink._closed]
    /\ UNCHANGED <<sink, delegate, flowVars, ring>>

\* self._closed = True
CloseSetClosed(t) ==
    /\ threads[t].pc = "close_set"
    /\ sink' = [sink EXCEPT !._closed = TRUE]
    /\ threads' = At(t, "close_signal")
    /\ UNCHANGED <<delegate, history, flowVars, ring>>

\* self._flush_event.set()
CloseSignal(t) ==
    /\ threads[t].pc = "close_signal"
    /\ sink' = [sink EXCEPT !._flush_event = TRUE]
    /\ threads' = At(t, "close_join")
    /\ UNCHANGED <<delegate, history, flowVars, ring>>

\* self._thread.join(timeout=5.0): the thread has ended, or the five seconds
\* have passed while it is in a write of the delegate; then self._do_flush()
CloseJoin(t) ==
    /\ threads[t].pc = "close_join"
    /\ threads[Background].pc \in {"done", "do_flush_write"}
    /\ threads' = [threads EXCEPT ![t].pc = "do_flush", ![t].ret = "close_delegate"]
    /\ UNCHANGED <<sink, delegate, history, flowVars, ring>>

\* self._delegate.close(), and close() returns
CloseDelegate(t) ==
    /\ threads[t].pc = "close_delegate"
    /\ delegate' = Append(delegate, [op |-> "close"])
    /\ threads' = At(t, "idle")
    /\ history' = [history EXCEPT !.close_returned = TRUE]
    /\ UNCHANGED <<sink, flowVars, ring>>

\* _flush_loop: while not self._closed
LoopTest ==
    /\ threads[Background].pc = "loop"
    /\ threads' = At(Background, IF sink._closed THEN "done" ELSE "wait")
    /\ UNCHANGED <<sink, delegate, history, flowVars, ring>>

\* self._flush_event.wait(timeout=...) returns because the event is set
WaitSignalled ==
    /\ threads[Background].pc = "wait"
    /\ sink._flush_event
    /\ threads' = At(Background, "clear")
    /\ UNCHANGED <<sink, delegate, history, flowVars, ring>>

\* self._flush_event.wait(timeout=...) returns because flush_interval has passed
WaitTimeout ==
    /\ threads[Background].pc = "wait"
    /\ ~sink._flush_event
    /\ threads' = At(Background, "clear")
    /\ UNCHANGED <<sink, delegate, history, flowVars, ring>>

\* self._flush_event.clear(); then self._do_flush()
Clear ==
    /\ threads[Background].pc = "clear"
    /\ sink' = [sink EXCEPT !._flush_event = FALSE]
    /\ threads' = [threads EXCEPT ![Background].pc = "do_flush", ![Background].ret = "loop"]
    /\ UNCHANGED <<delegate, history, flowVars, ring>>

WriterStep(t) ==
    \/ WriteCheckClosed(t)
    \/ WriteAcquire(t)
    \/ WriteAppend(t)
    \/ WriteSignal(t)

DoFlush(t) ==
    \/ DoFlushAcquire(t)
    \/ DoFlushTake(t)
    \/ DoFlushWrite(t)

CloserStep(t) ==
    \/ CloseCheckClosed(t)
    \/ CloseSetClosed(t)
    \/ CloseSignal(t)
    \/ CloseJoin(t)
    \/ CloseDelegate(t)

BackgroundStep ==
    \/ LoopTest
    \/ WaitSignalled
    \/ Clear
    \/ DoFlush(Background)

\* the parser of the other specifications is not in use
NoParser ==
    /\ missing_trace_id = NoTrace
    /\ input = ListV(<<>>)
    /\ call = NoCall

(***************************************************************************)
(* SpecAsync: a sink of buffer_size 1 or 2, two writer threads, a thread   *)
(* that calls flush(), one that calls close(), and the background thread.  *)
(***************************************************************************)
InitAsync ==
    /\ NoParser
    /\ \E buffer_size \in 0..2, flush_on_error \in BOOLEAN :
          sink = NewSink(buffer_size, flush_on_error)
    /\ threads = [t \in Threads |->
                    IF t = Background THEN [Idle EXCEPT !.pc = "loop"] ELSE Idle]
    /\ delegate = <<>>
    /\ history = [writes |-> 0, appended |-> <<>>, urgent |-> {}, late |-> {}, close_returned |-> FALSE]
    /\ ring = None

NextAsync ==
    \/ \E t \in Threads \ {Background} :
          \/ Write(t)
          \/ WriterStep(t)
          \/ Flush(t)
          \/ Close(t)
          \/ CloserStep(t)
          \/ DoFlush(t)
    \/ BackgroundStep
    \/ WaitTimeout

SpecAsync == InitAsync /\ [][NextAsync]_vars

(***************************************************************************)
(* RingBufferSink (src/nfo/ring_buffer_sink.py).  write() and the clearing *)
(* of close() run under the sink's lock, so each is one step.  A level is  *)
(* a str like the ones above: upper() is computed.                         *)
(***************************************************************************)
LevelError == <<"E", "R", "R", "O", "R">>
LevelCritical == <<"C", "R", "I", "T", "I", "C", "A", "L">>
LevelInfo == <<"I", "N", "F", "O">>

\* the levels of the entries written, and the trigger_levels a sink is made with
RingLevels == {LevelError, <<"e", "r", "r", "o", "r">>, LevelInfo}
TriggerLevels == {None, ListV(<<>>), ListV(<< <<"i", "n", "f", "o">> >>)}

\* the write() and close() calls made in a run
MaxRingWrites == 4
MaxRingCloses == 1

\* trigger_levels or ("ERROR", "CRITICAL")
TriggerLevelsOr(trigger_levels) ==
    IF Truthy(trigger_levels) THEN trigger_levels.items ELSE <<LevelError, LevelCritical>>

\* RingBufferSink.__init__
NewRing(capacity, trigger_levels, include_trigger) ==
    [maxlen |-> IF capacity > 1 THEN capacity ELSE 1,
     _buffer |-> <<>>,
     _trigger_levels |-> LET levels == TriggerLevelsOr(trigger_levels)
                         IN  {Upper(levels[i]) : i \in 1..Len(levels)},
     _include_trigger |-> include_trigger,
     _flush_count |-> 0]

\* a deque that forgets what was appended when it is full
DequeAppend_DropsNewest(buffer, maxlen, entry) ==
    IF Len(buffer) = maxlen THEN buffer ELSE Append(buffer, entry)

\* collections.deque(maxlen=...).append
DequeAppend(buffer, maxlen, entry) ==
    IF Len(buffer) = maxlen THEN Append(Tail(buffer), entry) ELSE Append(buffer, entry)

\* self._delegate.write(passed), called inside write(entry)
Passed(passed, entry) == [op |-> "write", entry |-> passed, during |-> entry]

\* RingBufferSink.write
RingWrite ==
    /\ history.writes < MaxRingWrites
    /\ \E level \in RingLevels :
          LET entry == LogEntry(history.writes + 1, level)
              batch == [i \in 1..Len(ring._buffer) |-> Passed(ring._buffer[i], entry)]
                          \o (IF ring._include_trigger THEN <<Passed(entry, entry)>> ELSE <<>>)
              flushed == [ring EXCEPT !._buffer = <<>>, !._flush_count = @ + 1]
          IN  IF Upper(entry.level) \in ring._trigger_levels
              THEN /\ delegate' = delegate \o batch
                   /\ ring' = flushed
                   /\ history' = [history EXCEPT !.writes = @ + 1,
                                                 !.since = <<>>,
                                                 !.cleared = FALSE,
                                                 !.last = [entry |-> entry,
                                                           since |-> history.since,
                                                           cleared |-> history.cleared,
                                                           before |-> ring,
                                                           after |-> flushed,
                                                           passed |-> batch]]
              ELSE /\ ring' = [ring EXCEPT !._buffer = DequeAppend(@, ring.maxlen, entry)]
                   /\ history' = [history EXCEPT !.writes = @ + 1,
                                                 !.since = Append(@, entry)]
                   /\ UNCHANGED delegate
    /\ UNCHANGED <<sink, threads, flowVars>>

\* RingBufferSink.close
RingClose ==
    /\ history.closes < MaxRingCloses
    /\ ring' = [ring EXCEPT !._buffer = <<>>]
    /\ delegate' = Append(delegate, [op |-> "close"])
    /\ history' = [history EXCEPT !.closes = @ + 1, !.cleared = TRUE]
    /\ UNCHANGED <<sink, threads, flowVars>>

(***************************************************************************)
(* SpecRing: a sink of capacity 1 or 2, written to and closed by one       *)
(* caller at a time.                                                       *)
(***************************************************************************)
InitRing ==
    /\ NoParser
    /\ sink = None
    /\ threads = None
    /\ delegate = <<>>
    /\ history = [writes |-> 0, closes |-> 0, since |-> <<>>, cleared |-> FALSE, last |-> None]
    /\ \E capacity \in 0..2, trigger_levels \in TriggerLevels, include_trigger \in BOOLEAN :
          ring = NewRing(capacity, trigger_levels, include_trigger)

NextRing ==
    \/ RingWrite
    \/ RingClose

SpecRing == InitRing /\ [][NextRing]_vars

(***************************************************************************)
(* SpecAsyncLive: an open sink, its writer threads and the background      *)
(* thread; no flush() and no close().  A write() that has been called is   *)
(* carried through and the background thread is scheduled fairly, but the  *)
(* flush interval need never pass.                                         *)
(***************************************************************************)
NextAsyncLive ==
    \/ \E t \in Writers :
          \/ Write(t)
          \/ WriterStep(t)
    \/ BackgroundStep
    \/ WaitTimeout

SpecAsyncLive ==
    /\ InitAsync
    /\ [][NextAsyncLive]_vars
    /\ WF_vars(BackgroundStep)
    /\ \A t \in Writers : WF_vars(WriterStep(t))

(***************************************************************************)
(* The properties                                                          *)
(***************************************************************************)
RECURSIVE Sum(_)
Sum(seq) == IF seq = <<>> THEN 0 ELSE Head(seq) + Sum(Tail(seq))

Range(seq) == {seq[i] : i \in 1..Len(seq)}

Count(seq, x) == Cardinality({i \in 1..Len(seq) : seq[i] = x})

\* the events of the argument of a call that returned, in the order passed
InputEvents ==
    IF input.t = "mapping"
    THEN Flatten([i \in 1..Len(input.items) |->
                    NormalizeAll(missing_trace_id, input.items[i].value).value])
    ELSE NormalizeAll(missing_trace_id, input.items).value

\* the consecutive pairs of the traces of a graph: <<trace, position of the source>>
Pairs(graph) ==
    {<<t, i>> \in (1..Len(graph.traces)) \X (1..MaxEntries + 1) :
        i < Len(graph.traces[t].events)}

PairsOn(graph, edge) ==
    {p \in Pairs(graph) :
        /\ graph.traces[p[1]].events[p[2]].node = edge.source
        /\ graph.traces[p[1]].events[p[2] + 1].node = edge.target}

\* C1: in every graph build_flow_graph returns, for a sequence or a mapping,
\* stats.node_count is the number of distinct node ids of the events processed and
\* the length of nodes (whose ids are distinct), and the calls of the nodes add up
\* to stats.event_count, the number of events processed.
C1_NodeCountAndCalls ==
    Returned("build_flow_graph") =>
        LET graph == call.result.value
            events == InputEvents
        IN /\ graph.stats.node_count = Cardinality({events[i].node : i \in 1..Len(events)})
           /\ graph.stats.node_count = Len(graph.nodes)
           /\ Cardinality({graph.nodes[i].id : i \in 1..Len(graph.nodes)}) = Len(graph.nodes)
           /\ Sum([i \in 1..Len(graph.nodes) |-> graph.nodes[i].calls])
                = graph.stats.event_count
           /\ graph.stats.event_count = Len(events)

\* a graph of three events at two nodes, built from an already-grouped mapping
C1_Witness ==
    /\ Returned("build_flow_graph")
    /\ input.t = "mapping"
    /\ call.result.value.stats.event_count = 3
    /\ call.result.value.stats.node_count = 2

\* C2 (as claimed): every consecutive pair of a trace of the graph is two events
\* carrying the same trace_id, and the edge of the pair records that trace_id.
C2_EdgesWithinOneTrace ==
    Returned("build_flow_graph") =>
        LET graph == call.result.value
        IN \A p \in Pairs(graph) :
              LET source == graph.traces[p[1]].events[p[2]]
                  target == graph.traces[p[1]].events[p[2] + 1]
              IN /\ source.trace_id = target.trace_id
                 /\ \E e \in 1..Len(graph.edges) :
                       /\ graph.edges[e].source = source.node
                       /\ graph.edges[e].target = target.node
                       /\ source.trace_id \in Range(graph.edges[e].trace_ids)

\* C3: the error_count of an edge is the number of the consecutive pairs on it
\* whose target event carries a non-empty exception (and its count the number of
\* the pairs on it): the source's exception adds nothing.
C3_EdgeErrorsFromTarget ==
    Returned("build_flow_graph") =>
        LET graph == call.result.value
        IN \A e \in 1..Len(graph.edges) :
              LET on == PairsOn(graph, graph.edges[e])
              IN /\ graph.edges[e].count = Cardinality(on)
                 /\ graph.edges[e].error_count =
                       Cardinality({p \in on :
                           graph.traces[p[1]].events[p[2] + 1].exception # <<>>})

\* a trace of three events, the second with an exception: the edge into it has
\* error_count 1, the edge out of it error_count 0
C3_Witness ==
    /\ Returned("build_flow_graph")
    /\ LET graph == call.result.value
       IN \E t \in 1..Len(graph.traces) :
             LET events == graph.traces[t].events
             IN /\ Len(events) = 3
                /\ events[1].exception = <<>>
                /\ events[2].exception # <<>>
                /\ events[3].exception = <<>>
                /\ \E e1, e2 \in 1..Len(graph.edges) :
                      /\ graph.edges[e1].source = events[1].node
                      /\ graph.edges[e1].target = events[2].node
                      /\ graph.edges[e1].error_count = 1
                      /\ graph.edges[e2].source = events[2].node
                      /\ graph.edges[e2].target = events[3].node
                      /\ graph.edges[e2].error_count = 0

\* C8: normalize_entry raises TypeError for a value that is no mapping, and
\* group_by_trace_id, build_flow_graph and compress_for_llm raise, returning
\* nothing, for a sequence that holds such a value.
C8_UnsupportedEntryRaises ==
    /\ (call.op = "normalize_entry" /\ input.items[call.index].t # "dict")
          => call.result = Raise("TypeError")
    /\ (/\ call.op \in {"group_by_trace_id", "build_flow_graph", "compress_for_llm"}
        /\ input.t = "list"
        /\ \E i \in 1..Len(input.items) : input.items[i].t # "dict")
          => (IsRaise(call.result) /\ DOMAIN call.result = {"exc"})

\* compress_for_llm raised on a sequence whose last value, after two records, is
\* no mapping
C8_Witness ==
    /\ call.op = "compress_for_llm"
    /\ input.t = "list"
    /\ Len(input.items) = 3
    /\ input.items[1].t = "dict"
    /\ input.items[2].t = "dict"
    /\ input.items[3].t # "dict"
    /\ call.result = Raise("TypeError")

\* C10: in every bucket group_by_trace_id returns the events are in nondecreasing
\* order of (sort_key, function_name, module); the keys are distinct, every event of
\* a bucket carries the bucket's key, and every normalized input event is in the
\* buckets as many times as in the input.
C10_BucketsSortedPartition ==
    Returned("group_by_trace_id") =>
        LET grouped == call.result.value
            events == InputEvents
            all == Flatten([p \in 1..Len(grouped) |-> grouped[p].events])
        IN /\ \A p \in 1..Len(grouped) :
                 /\ \A i, j \in 1..Len(grouped[p].events) :
                       i < j => ~EventKeyLess(grouped[p].events[j], grouped[p].events[i])
                 /\ \A i \in 1..Len(grouped[p].events) :
                       grouped[p].events[i].trace_id = grouped[p].trace_id
                 /\ \A q \in 1..Len(grouped) :
                       grouped[p].trace_id = grouped[q].trace_id => p = q
           /\ Len(all) = Len(events)
           /\ \A x \in Range(events) : Count(all, x) = Count(events, x)

\* two buckets, one of them holding two events that arrived in the other order
C10_Witness ==
    /\ Returned("group_by_trace_id")
    /\ Len(call.result.value) = 2
    /\ \E p \in 1..2 :
          LET bucket == call.result.value[p].events
          IN /\ Len(bucket) = 2
             /\ EventKeyLess(bucket[1], bucket[2])
             /\ \E i, j \in 1..Len(input.items) :
                   /\ i < j
                   /\ InputEvents[i] = bucket[2]
                   /\ InputEvents[j] = bucket[1]

\* a value that is absent (None stands for it), null or the empty string
Empty(v) == v = None \/ v = StrV(<<>>)

WhitespaceOnly(v) == v.t = "str" /\ \A i \in 1..Len(v.s) : v.s[i] = " "

\* the places normalize_entry looks for a trace id in, in its order
TraceSources(raw) ==
    LET extra == Get(raw, "extra", None)
        in_extra == IF extra.t = "dict" THEN extra.d ELSE EmptyDict
    IN <<Get(raw, "trace_id", None), Get(raw, "tid", None),
         Get(in_extra, "trace_id", None), Get(in_extra, "tid", None)>>

\* the first place that holds a non-empty value holds blanks only, or none does
NoTraceSource(raw) ==
    \A i \in 1..4 :
        (~Empty(TraceSources(raw)[i]) /\ \A j \in 1..(i - 1) : Empty(TraceSources(raw)[j]))
            => WhitespaceOnly(TraceSources(raw)[i])

\* the record at place i of the sequence passed gets the sentinel as trace_id and
\* sits in the sentinel's bucket
InSentinelBucket(grouped, i, sentinel) ==
    /\ InputEvents[i].trace_id = sentinel
    /\ \E p \in 1..Len(grouped) :
          /\ grouped[p].trace_id = sentinel
          /\ InputEvents[i] \in Range(grouped[p].events)

StrippedSentinel ==
    IF Strip(missing_trace_id) # <<>> THEN Strip(missing_trace_id) ELSE missing_trace_id

\* the trace id of a record without a trace source: the sentinel as configured
\* when a place holds blanks, the stripped sentinel when every place is empty
SentinelFor(raw) ==
    IF \A i \in 1..4 : Empty(TraceSources(raw)[i])
    THEN StrippedSentinel
    ELSE missing_trace_id

DurationSource(raw) == Get(raw, "duration_ms", Get(raw, "ms", None))

\* a duration that is a number, or text that spells one
UsableDuration(v) ==
    \/ v.t \in {"int", "bigint"}
    \/ (v.t = "str" /\ v.s # <<>> /\ \A i \in 1..Len(v.s) : v.s[i] \in {"3", "5", "7"})

\* the text normalize_entry keeps as the timestamp
TimestampSource(raw) ==
    IF ~Empty(Get(raw, "timestamp", None)) THEN Get(raw, "timestamp", None)
    ELSE IF ~Empty(Get(raw, "ts", None)) THEN Get(raw, "ts", None)
    ELSE StrV(<<>>)

\* C9 (as claimed): normalize_entry raises for no mapping record, whatever it
\* holds under the timestamp and duration keys; a duration that is no number gives
\* duration_ms 0, a timestamp that is no ISO-8601 text gives sort_key 0, and the
\* timestamp is kept as it was.
C9_CoercionsNeverRaise ==
    (call.op = "normalize_entry" /\ input.items[call.index].t = "dict") =>
        /\ ~IsRaise(call.result)
        /\ LET raw == input.items[call.index].d
               event == call.result.value
           IN /\ ~UsableDuration(DurationSource(raw)) => event.duration_ms = 0
              /\ TimestampSource(raw).t = "str" => event.timestamp = TimestampSource(raw).s
              /\ TimestampSource(raw) \notin {StrV(Ts15), StrV(Ts15T10Z), StrV(Ts16)}
                    => event.sort_key = 0

\* a line that holds a JSON object
IsObjectLine(line) ==
    /\ \E i \in 1..Len(line) : line[i] # " "
    /\ ~IsRaise(JsonLoads(Strip(line)))
    /\ JsonLoads(Strip(line)).value.t = "dict"

IsBlankLine(line) == \A i \in 1..Len(line) : line[i] = " "

\* the places of the malformed lines of the lines passed
Malformed ==
    {i \in 1..Len(input.items) :
        ~IsBlankLine(input.items[i].s) /\ ~IsObjectLine(input.items[i].s)}

\* C6 (as claimed): parse_jsonl with strict=False returns, for any lines, one
\* normalized event per line that is a JSON object, in the order of the lines.
C6_NonStrictOneEventPerObject ==
    (call.op = "parse_jsonl" /\ ~call.strict) =>
        /\ ~IsRaise(call.result)
        /\ LET objects == SelectSeq(input.items, LAMBDA line : IsObjectLine(line.s))
           IN call.result.value =
                 [k \in 1..Len(objects) |->
                    normalize_entry(missing_trace_id,
                                    JsonLoads(Strip(objects[k].s)).value).value]

\* C7 (as claimed): parse_jsonl with strict=True raises at the first malformed
\* line an error that names its 1-based number and returns no events; with no
\* malformed line it returns what strict=False returns.
C7_StrictAbortsAtFirstMalformed ==
    (call.op = "parse_jsonl" /\ call.strict) =>
        IF Malformed # {}
        THEN /\ call.result.exc = "ValueError"
             /\ call.result.line_no \in Malformed
             /\ \A i \in Malformed : call.result.line_no <= i
             /\ "value" \notin DOMAIN call.result
        ELSE call.result = parse_jsonl(missing_trace_id, input, FALSE)

\* the graph a compress_for_llm call rendered
Compressed ==
    IF input.t = "graph" THEN input.graph
    ELSE build_flow_graph(missing_trace_id, input).value

LinesOfKind(lines, kind) == {i \in 1..Len(lines) : lines[i].kind = kind}

MoreLines(lines, what) ==
    {i \in 1..Len(lines) : lines[i].kind = "more" /\ lines[i].what = what}

\* an elision line of the kind, among the lines at the places, iff something was
\* omitted, and then one line that reports the number omitted
ElisionExact(lines, places, what, omitted) ==
    LET more == MoreLines(lines, what) \cap places
    IN /\ (omitted > 0) <=> (more # {})
       /\ Cardinality(more) <= 1
       /\ \A i \in more : lines[i].n = omitted

\* the places of the lines of the trace rendered at place h: up to the next trace
TraceBlock(lines, h) ==
    {i \in 1..Len(lines) :
        /\ i > h
        /\ \A j \in LinesOfKind(lines, "trace") : j > h => i < j}

\* C4 (as claimed): under every budget, every elision line of a compress_for_llm
\* text reports the number of items of its kind that were not rendered, and is
\* there exactly when at least one was not.
C4_ElisionCountsExact ==
    Returned("compress_for_llm") =>
        LET lines == call.result.value
            graph == Compressed
            all == 1..Len(lines)
        IN /\ ElisionExact(lines, all, "nodes",
                           Len(graph.nodes) - Cardinality(LinesOfKind(lines, "node")))
           /\ ElisionExact(lines, all, "edges",
                           Len(graph.edges) - Cardinality(LinesOfKind(lines, "edge")))
           /\ ElisionExact(lines, all, "traces",
                           Len(graph.traces) - Cardinality(LinesOfKind(lines, "trace")))
           /\ \A h \in LinesOfKind(lines, "trace") :
                 \E t \in 1..Len(graph.traces) :
                    /\ graph.traces[t].trace_id = lines[h].trace_id
                    /\ ElisionExact(lines, TraceBlock(lines, h), "events in this trace",
                          Len(graph.traces[t].events)
                            - Cardinality(LinesOfKind(lines, "event")
                                            \cap TraceBlock(lines, h)))

\* C11: the trace ids of the mapping group_by_trace_id returns are in descending
\* order of bucket size, and in ascending lexicographic order of trace_id among
\* buckets of one size: every two adjacent keys are in that order.
C11_GroupsBySizeThenTraceId ==
    Returned("group_by_trace_id") =>
        LET grouped == call.result.value
        IN \A p \in 1..(Len(grouped) - 1) :
              \/ Len(grouped[p].events) > Len(grouped[p + 1].events)
              \/ /\ Len(grouped[p].events) = Len(grouped[p + 1].events)
                 /\ StrLess(grouped[p].trace_id, grouped[p + 1].trace_id)

\* two buckets, the larger first though its trace id arrived second
C11_Witness ==
    /\ Returned("group_by_trace_id")
    /\ Len(call.result.value) = 2
    /\ Len(call.result.value[1].events) = 2
    /\ InputEvents[1].trace_id = call.result.value[2].trace_id

\* two buckets of one size whose trace ids arrived in descending order
C11_WitnessTie ==
    /\ Returned("group_by_trace_id")
    /\ Len(call.result.value) = 2
    /\ Len(call.result.value[1].events) = Len(call.result.value[2].events)
    /\ InputEvents[1].trace_id = call.result.value[2].trace_id

\* C12: grouping again the buckets group_by_trace_id returned, concatenated in the
\* order of the mapping, returns the same trace ids in the same order and in every
\* bucket the same events in the same order.
C12_RegroupingIsIdentity ==
    call.op = "regroup" => call.result = Ok(call.grouped)

\* C13: in the graph build_flow_graph returns for an already-grouped mapping, every
\* bucket supplied is a trace whose events are the bucket's entries, normalized, in
\* nondecreasing order of (sort_key, function_name, module), and the edges are the
\* adjacent pairs of the traces in that order, each counted once.
C13_SuppliedBucketsResorted ==
    (Returned("build_flow_graph") /\ input.t = "mapping") =>
        LET graph == call.result.value
        IN /\ \A t \in 1..Len(graph.traces) :
                 \A i, j \in 1..Len(graph.traces[t].events) :
                    i < j => ~EventKeyLess(graph.traces[t].events[j],
                                           graph.traces[t].events[i])
           /\ \A k \in 1..Len(input.items) :
                 \E t \in 1..Len(graph.traces) :
                    LET supplied == NormalizeAll(missing_trace_id, input.items[k].value).value
                        events == graph.traces[t].events
                    IN /\ graph.traces[t].trace_id = Str(input.items[k].key)
                       /\ Len(events) = Len(supplied)
                       /\ \A x \in Range(supplied) : Count(events, x) = Count(supplied, x)
           /\ \A e \in 1..Len(graph.edges) :
                 graph.edges[e].count = Cardinality(PairsOn(graph, graph.edges[e]))
           /\ Sum([e \in 1..Len(graph.edges) |-> graph.edges[e].count])
                 = Cardinality(Pairs(graph))

\* a bucket supplied with the later event first: the edge runs from the event
\* supplied second to the event supplied first
C13_Witness ==
    /\ Returned("build_flow_graph")
    /\ input.t = "mapping"
    /\ \E k \in 1..Len(input.items) :
          LET supplied == NormalizeAll(missing_trace_id, input.items[k].value).value
          IN /\ Len(supplied) = 2
             /\ EventKeyLess(supplied[2], supplied[1])
             /\ supplied[1].node # supplied[2].node
             /\ \E e \in 1..Len(call.result.value.edges) :
                   /\ call.result.value.edges[e].source = supplied[2].node
                   /\ call.result.value.edges[e].target = supplied[1].node

GroupKeys ==
    IF input.t = "mapping"
    THEN {Str(input.items[k].key) : k \in 1..Len(input.items)}
    ELSE {InputEvents[i].trace_id : i \in 1..Len(InputEvents)}

\* C15: in every graph build_flow_graph returns, stats.trace_count is the number
\* of groups and the length of traces, stats.edge_count is the number of distinct
\* (source, target) pairs of adjacent events and the length of edges, and
\* stats.error_count is the number of events with a non-empty exception, the sum
\* of errors over the nodes and the sum of error_count over the traces.
C15_StatsCounts ==
    Returned("build_flow_graph") =>
        LET graph == call.result.value
            events == InputEvents
        IN /\ graph.stats.trace_count = Cardinality(GroupKeys)
           /\ graph.stats.trace_count = Len(graph.traces)
           /\ graph.stats.edge_count =
                 Cardinality({<<graph.traces[p[1]].events[p[2]].node,
                                graph.traces[p[1]].events[p[2] + 1].node>> :
                              p \in Pairs(graph)})
           /\ graph.stats.edge_count = Len(graph.edges)
           /\ graph.stats.error_count =
                 Cardinality({i \in 1..Len(events) : events[i].exception # <<>>})
           /\ graph.stats.error_count =
                 Sum([i \in 1..Len(graph.nodes) |-> graph.nodes[i].errors])
           /\ graph.stats.error_count =
                 Sum([t \in 1..Len(graph.traces) |-> graph.traces[t].error_count])

\* a graph of two traces, with an edge, two of whose three events carry an exception
C15_Witness ==
    /\ Returned("build_flow_graph")
    /\ call.result.value.stats.trace_count = 2
    /\ call.result.value.stats.edge_count = 1
    /\ call.result.value.stats.event_count = 3
    /\ call.result.value.stats.error_count = 2

\* the key supplies a value: it is there, and is neither null nor empty
Supplies(raw, key) == key \in DOMAIN raw /\ ~Empty(raw[key])

\* C16 (as claimed): for each of the eight canonical fields of which the record
\* supplies a value, the event's field is what normalize_entry makes of the value
\* under the long-form key if that key supplies one, and of the value under the
\* abbreviation if not.
C16_LongFormThenAbbreviation ==
    (Returned("normalize_entry") /\ input.items[call.index].t = "dict") =>
        LET raw == input.items[call.index].d
            event == call.result.value
        IN \A f \in Fields :
              (Supplies(raw, f.long) \/ Supplies(raw, f.short)) =>
                 LET taken == IF Supplies(raw, f.long) THEN raw[f.long] ELSE raw[f.short]
                     alone == normalize_entry(missing_trace_id, DictV(f.long :> taken))
                 IN event[f.name] = alone.value[f.name]

\* C17 (as claimed): under every budget, the text of compress_for_llm has at most
\* max_nodes node lines, max_edges edge lines and max_traces trace headers, and
\* at most max_events_per_trace event lines under each trace header.
C17_WithinBudgets ==
    Returned("compress_for_llm") =>
        LET lines == call.result.value
        IN /\ Cardinality(LinesOfKind(lines, "node")) <= call.max_nodes
           /\ Cardinality(LinesOfKind(lines, "edge")) <= call.max_edges
           /\ Cardinality(LinesOfKind(lines, "trace")) <= call.max_traces
           /\ \A h \in LinesOfKind(lines, "trace") :
                 Cardinality(LinesOfKind(lines, "event") \cap TraceBlock(lines, h))
                    <= call.max_events_per_trace

IsText(line, text) == line.kind = "text" /\ line.text = text

\* the places of the lines of a text that read as the text given
PlacesOf(text_lines, text) == {i \in 1..Len(text_lines) : IsText(text_lines[i], text)}

\* C18 (as claimed): the text of compress_for_llm starts with the title line; it
\* holds the headers '## Summary', '## Top Nodes', '## Top Edges' and
\* '## Trace Timelines' once each, in that order; its five counters are those of
\* the graph's stats; and its node, edge and trace lines are those of the first
\* nodes, edges and traces of the graph, in the graph's order.
C18_TitleHeadersCountersOrder ==
    Returned("compress_for_llm") =>
        LET lines == call.result.value
            text == TextLines(lines)
            graph == Compressed
            Of(kind) == SelectSeq(lines, LAMBDA line : line.kind = kind)
            headers == <<"## Summary", "## Top Nodes", "## Top Edges", "## Trace Timelines">>
        IN /\ IsText(text[1], "# nfo Log Flow Compression")
           /\ \A h \in 1..4 : Cardinality(PlacesOf(text, headers[h])) = 1
           /\ \A h \in 1..3 :
                 \A i \in PlacesOf(text, headers[h]), j \in PlacesOf(text, headers[h + 1]) :
                    i < j
           /\ [i \in 1..5 |-> text[2 + i].n]
                 = <<graph.stats.trace_count, graph.stats.event_count,
                     graph.stats.node_count, graph.stats.edge_count,
                     graph.stats.error_count>>
           /\ Len(Of("node")) <= Len(graph.nodes)
           /\ Of("node") = [i \in 1..Len(Of("node")) |-> NodeLine(graph.nodes[i])]
           /\ Len(Of("edge")) <= Len(graph.edges)
           /\ Of("edge") = [i \in 1..Len(Of("edge")) |-> EdgeLine(graph.edges[i])]
           /\ Len(Of("trace")) <= Len(graph.traces)
           /\ \A i \in 1..Len(Of("trace")) :
                 Of("trace")[i].trace_id = graph.traces[i].trace_id

\* C19 (as claimed): for a sequence of entries and for an already-grouped mapping,
\* whatever its keys, compress_for_llm returns what it returns for the graph
\* build_flow_graph makes of the argument, under the same budgets (and raises
\* what build_flow_graph raises).
C19_EntriesGoThroughBuilder ==
    (call.op = "compress_for_llm" /\ input.t \in {"list", "mapping"}) =>
        LET built == build_flow_graph(missing_trace_id, input)
        IN call.result =
              IF IsRaise(built) THEN built
              ELSE compress_for_llm(missing_trace_id, GraphV(built.value),
                                    call.max_nodes, call.max_edges, call.max_traces,
                                    call.max_events_per_trace)

\* C20 (as claimed): two events processed by build_flow_graph are counted on the
\* same node if and only if they have the same module and the same function_name,
\* and the module and function_name of a node are those of every event counted
\* on it.
C20_NodeIsModuleAndFunction ==
    Returned("build_flow_graph") =>
        LET graph == call.result.value
            events == InputEvents
        IN /\ \A i, j \in 1..Len(events) :
                 (events[i].node = events[j].node)
                    <=> (/\ events[i].module = events[j].module
                         /\ events[i].function_name = events[j].function_name)
           /\ \A n \in 1..Len(graph.nodes) :
                 \A i \in 1..Len(events) :
                    events[i].node = graph.nodes[n].id
                       => /\ graph.nodes[n].module = events[i].module
                          /\ graph.nodes[n].function_name = events[i].function_name

\* a file exists at the path a text names
FileAt(s) == s = FileName

\* C21: _read_lines on a bare string reads a file exactly when the string has
\* no line break and a file exists at that path, and returns its lines; in
\* every other case it returns the lines of the string itself.
C21_BareStringFileOrLiteral ==
    (call.op = "_read_lines" /\ call.source.t = "str") =>
        call.result = Ok(IF ~HasNewLine(call.source.s) /\ FileAt(call.source.s)
                         THEN splitlines(FileText)
                         ELSE splitlines(call.source.s))
\* C22: in every graph build_flow_graph returns, the counts of the edges add up
\* to stats.event_count minus the number of traces that have events; no edge
\* names a trace of a single event; and two consecutive events of a trace at the
\* same node are counted on a self-loop edge of that trace.
C22_OneEdgePerConsecutivePair ==
    Returned("build_flow_graph") =>
        LET graph == call.result.value
            nonEmpty == {t \in 1..Len(graph.traces) : graph.traces[t].events # <<>>}
        IN /\ Sum([e \in 1..Len(graph.edges) |-> graph.edges[e].count])
                 = graph.stats.event_count - Cardinality(nonEmpty)
           /\ \A t \in 1..Len(graph.traces), e \in 1..Len(graph.edges) :
                 Len(graph.traces[t].events) = 1
                    => graph.traces[t].trace_id \notin Range(graph.edges[e].trace_ids)
           /\ \A p \in Pairs(graph) :
                 LET trace == graph.traces[p[1]]
                 IN trace.events[p[2]].node = trace.events[p[2] + 1].node
                       => \E e \in 1..Len(graph.edges) :
                             /\ graph.edges[e].source = trace.events[p[2]].node
                             /\ graph.edges[e].target = trace.events[p[2]].node
                             /\ trace.trace_id \in Range(graph.edges[e].trace_ids)

\* a graph of a trace of one event and a trace of two events at the same node:
\* one self-loop edge, counted once
C22_Witness ==
    /\ Returned("build_flow_graph")
    /\ call.result.value.stats.event_count = 3
    /\ call.result.value.stats.trace_count = 2
    /\ Len(call.result.value.edges) = 1
    /\ call.result.value.edges[1].source = call.result.value.edges[1].target
    /\ call.result.value.edges[1].count = 1

\* C23: the graph build_flow_graph returns for the mapping group_by_trace_id
\* returned for a sequence is the graph it returns for the sequence itself (the
\* same stats, nodes, edges and traces), and its traces carry the trace ids in
\* the order of the keys of that mapping.
C23_GroupedPathSameGraph ==
    call.op = "build_from_grouped" =>
        /\ call.result = build_flow_graph(missing_trace_id, input)
        /\ [t \in 1..Len(call.result.value.traces) |-> call.result.value.traces[t].trace_id]
              = [p \in 1..Len(call.grouped) |-> call.grouped[p].trace_id]

\* C24: normalizing again the event normalize_entry returned for a mapping
\* returns the same event, field for field.
C24_NormalizeIdempotent ==
    call.op = "renormalize" => call.result = Ok(call.event)
\* the nodes of a graph with their calls and errors, and its edges with their
\* count and error_count
NodeCounts(graph) ==
    {[id |-> graph.nodes[n].id, calls |-> graph.nodes[n].calls,
      errors |-> graph.nodes[n].errors] : n \in 1..Len(graph.nodes)}

EdgeCounts(graph) ==
    {[source |-> graph.edges[e].source, target |-> graph.edges[e].target,
      count |-> graph.edges[e].count, error_count |-> graph.edges[e].error_count] :
        e \in 1..Len(graph.edges)}

\* C25: the graph build_flow_graph returns for the entries of a sequence passed
\* in another order has the same stats, the same nodes with the same calls and
\* errors, and the same edges with the same count and error_count as the graph
\* of the sequence, also when events of one trace tie.
C25_OrderIndependent ==
    call.op = "build_permuted" =>
        LET graph == build_flow_graph(missing_trace_id, input).value
            permuted == call.result.value
        IN /\ permuted.stats = graph.stats
           /\ NodeCounts(permuted) = NodeCounts(graph)
           /\ EdgeCounts(permuted) = EdgeCounts(graph)
WritesOf(entry) ==
    {i \in 1..Len(delegate) : delegate[i].op = "write" /\ delegate[i].entry = entry}

\* C27: once close() has returned, the buffer is empty, every entry a write()
\* appended to the buffer has been passed to the delegate's write exactly once,
\* before the delegate's close(), and no entry of a write() called after that
\* return has reached the buffer.
C27_NothingLostOrDuplicated ==
    history.close_returned =>
        /\ sink._buffer = <<>>
        /\ \A entry \in Range(history.appended) :
              /\ Cardinality(WritesOf(entry)) = 1
              /\ \A i \in WritesOf(entry), j \in 1..Len(delegate) :
                    delegate[j].op = "close" => i < j
        /\ history.late \cap Range(history.appended) = {}
\* the delegate's write has been passed the entry of this id
Delivered(id) ==
    \E i \in 1..Len(delegate) : delegate[i].op = "write" /\ delegate[i].entry.id = id

\* the entry of this id, and every entry appended to the buffer before it
UpTo(id) ==
    {history.appended[k].id : k \in {k \in 1..Len(history.appended) :
        \E n \in k..Len(history.appended) : history.appended[n].id = id}}

\* C28: on an open sink, an entry whose write() found buffer_size entries in the
\* buffer, or that is of level ERROR or CRITICAL with flush_on_error set, is
\* eventually passed to the delegate, with every entry buffered before it, by
\* the background thread alone and without the flush interval passing.
C28_UrgentEntryEventuallyFlushed ==
    \A id \in 1..MaxWrites :
        (id \in history.urgent) ~> (\A k \in UpTo(id) : Delivered(k))

\* two entries, the second one urgent, both passed to the delegate while a
\* later signal is still set
C28_Witness ==
    /\ history.urgent = {2}
    /\ Delivered(1)
    /\ Delivered(2)
    /\ ~history.close_returned
    /\ threads[Background].pc = "wait"
\* the entries a flush is to pass on: the last min(capacity, k) of the k entries
\* written since the previous flush, then the trigger when it is included
Expected(last) ==
    LET k == Len(last.since)
        n == IF last.before.maxlen < k THEN last.before.maxlen ELSE k
    IN  SubSeq(last.since, k - n + 1, k)
            \o (IF last.before._include_trigger THEN <<last.entry>> ELSE <<>>)

\* C29: a RingBufferSink never holds more than its capacity; the delegate's
\* write is called only during the write of an entry of a trigger level; such
\* a write passes on the last min(capacity, k) of the k entries written since
\* the previous flush, oldest first, then the trigger when include_trigger is
\* set, leaves the buffer empty and adds one to flush_count.
C29_RingKeepsLastAndFlushesOnTrigger ==
    /\ Len(ring._buffer) <= ring.maxlen
    /\ \A i \in 1..Len(delegate) :
          delegate[i].op = "write" =>
              Upper(delegate[i].during.level) \in ring._trigger_levels
    /\ (history.last # None /\ ~history.last.cleared) =>
          /\ [i \in 1..Len(history.last.passed) |-> history.last.passed[i].entry]
                = Expected(history.last)
          /\ history.last.after._buffer = <<>>
          /\ history.last.after._flush_count = history.last.before._flush_count + 1

\* a lower-case "error" written to a sink of capacity 2 after three other
\* entries: the last two of them and the trigger are passed on
C29_Witness ==
    /\ history.last # None
    /\ ~history.last.cleared
    /\ history.last.entry.level = <<"e", "r", "r", "o", "r">>
    /\ history.last.before.maxlen = 2
    /\ Len(history.last.since) = 3
    /\ ring._include_trigger
    /\ Len(history.last.passed) = 3
    /\ ring._flush_count = 1
\* C30: in every trace summary of a graph build_flow_graph returned, event_count
\* is the length of the events list, error_count the number of its events with
\* a non-empty exception, start_timestamp and end_timestamp the timestamps of
\* its first and last event (empty when it has none); the event_counts add up
\* to stats.event_count, the number of events passed.
C30_TraceSummaries ==
    Returned("build_flow_graph") =>
        LET graph == call.result.value
        IN /\ \A t \in 1..Len(graph.traces) :
                 LET summary == graph.traces[t]
                     events == summary.events
                 IN /\ summary.event_count = Len(events)
                    /\ summary.error_count
                          = Cardinality({i \in 1..Len(events) : events[i].exception # <<>>})
                    /\ summary.start_timestamp
                          = IF Len(events) = 0 THEN <<>> ELSE Head(events).timestamp
                    /\ summary.end_timestamp
                          = IF Len(events) = 0 THEN <<>> ELSE events[Len(events)].timestamp
           /\ Sum([t \in 1..Len(graph.traces) |-> graph.traces[t].event_count])
                 = graph.stats.event_count
           /\ graph.stats.event_count = Len(InputEvents)

\* a graph with a trace of no events, and a trace of several events that starts
\* and ends at different timestamps and carries an error
C30_Witness ==
    /\ Returned("build_flow_graph")
    /\ \E t \in 1..Len(call.result.value.traces) :
          /\ call.result.value.traces[t].events = <<>>
          /\ call.result.value.traces[t].start_timestamp = <<>>
    /\ \E t \in 1..Len(call.result.value.traces) :
          LET summary == call.result.value.traces[t]
          IN /\ summary.event_count >= 2
             /\ summary.error_count = 1
             /\ summary.start_timestamp # summary.end_timestamp
             /\ summary.start_timestamp # <<>>
====
